---- MODULE Spec2Model ----
(***************************************************************************)
(* GEDCOM import pipeline of djtree: the parser, the field normalizers,    *)
(* the person matcher, the import orchestrator and the save hooks of the   *)
(* persisted models it writes through.                                     *)
(*                                                                         *)
(* Text that the program splits or pattern-matches (NAME and DATE values,  *)
(* stored name parts) is a sequence of one-character strings; every other  *)
(* text (tags, xrefs, places, SEX) is a string.  None is <<>> for dates.   *)
(***************************************************************************)
EXTENDS Integers, Sequences, FiniteSets, TLC

\* ---------------------------------------------------------------- bounds
MaxRuns == 2
MaxSaves == 1
MaxLines == 5

\* ---------------------------------------------------------------- text
UpperCase == <<"A","B","C","D","E","F","G","H","I","J","K","L","M","N","O","P","Q","R","S","T","U","V","W","X","Y","Z">>
LowerCase == <<"a","b","c","d","e","f","g","h","i","j","k","l","m","n","o","p","q","r","s","t","u","v","w","x","y","z">>
DigitChars == <<"0","1","2","3","4","5","6","7","8","9">>

Has(seq, c) == \E k \in 1..Len(seq) : seq[k] = c
IndexOf(seq, c) == CHOOSE k \in 1..Len(seq) : seq[k] = c /\ \A j \in 1..(k-1) : seq[j] # c
Drop(s, n) == SubSeq(s, n + 1, Len(s))

ToLower == [c \in {UpperCase[k] : k \in 1..26} |-> LowerCase[IndexOf(UpperCase, c)]]
ToUpper == [c \in {LowerCase[k] : k \in 1..26} |-> UpperCase[IndexOf(LowerCase, c)]]
lower(s) == [i \in 1..Len(s) |-> IF s[i] \in DOMAIN ToLower THEN ToLower[s[i]] ELSE s[i]]
upper(s) == [i \in 1..Len(s) |-> IF s[i] \in DOMAIN ToUpper THEN ToUpper[s[i]] ELSE s[i]]

IsSpace(c) == c \in {" ", "\t"}
IsDigit(c) == Has(DigitChars, c)
DigitVal(c) == IndexOf(DigitChars, c) - 1

RECURSIVE SpaceRun(_)
SpaceRun(s) == IF s # <<>> /\ IsSpace(Head(s)) THEN 1 + SpaceRun(Tail(s)) ELSE 0
RECURSIVE DigitRun(_)
DigitRun(s) == IF s # <<>> /\ IsDigit(Head(s)) THEN 1 + DigitRun(Tail(s)) ELSE 0
RECURSIVE WordRun(_)
WordRun(s) == IF s # <<>> /\ ~IsSpace(Head(s)) THEN 1 + WordRun(Tail(s)) ELSE 0

lstrip(s) == Drop(s, SpaceRun(s))
RECURSIVE rstrip(_)
rstrip(s) == IF s # <<>> /\ IsSpace(s[Len(s)]) THEN rstrip(SubSeq(s, 1, Len(s) - 1)) ELSE s
strip(s) == rstrip(lstrip(s))

\* str.split(): the whitespace-separated tokens, none empty
RECURSIVE split(_)
split(s) ==
    LET t == lstrip(s)
        n == WordRun(t)
    IN  IF t = <<>> THEN <<>> ELSE <<SubSeq(t, 1, n)>> \o split(Drop(t, n))

\* str.split(sep): the segments between separators, empty ones included
RECURSIVE split_on(_, _)
split_on(s, sep) ==
    IF ~Has(s, sep) THEN <<s>>
    ELSE LET k == IndexOf(s, sep)
         IN  <<SubSeq(s, 1, k - 1)>> \o split_on(Drop(s, k), sep)

\* " ".join(parts)
RECURSIVE join(_)
join(parts) ==
    IF parts = <<>> THEN <<>>
    ELSE IF Len(parts) = 1 THEN parts[1]
    ELSE parts[1] \o <<" ">> \o join(Tail(parts))

RECURSIVE DropEmpty(_)
DropEmpty(parts) ==
    IF parts = <<>> THEN <<>>
    ELSE IF strip(Head(parts)) = <<>> THEN DropEmpty(Tail(parts))
    ELSE <<strip(Head(parts))>> \o DropEmpty(Tail(parts))

\* ---------------------------------------------------------------- PersonMatcher._parse_name
NameTriple(f, m, l) == [first |-> f, middle |-> m, last |-> l]

\* the '/Surname/' branch is taken only when at least two non-empty segments exist
SlashParts(name_str) == IF Has(name_str, "/") THEN DropEmpty(split_on(name_str, "/")) ELSE <<>>

\* parts[0] of an empty whitespace split: IndexError
parse_name_raises(name_str) ==
    /\ name_str # <<>>
    /\ Len(SlashParts(name_str)) < 2
    /\ split(strip(name_str)) = <<>>

\* lines 150-156: given names before the surname, the rest of them the middle name
SlashName(given_names, surname) ==
    IF Len(given_names) = 1
    THEN NameTriple(given_names[1], <<>>, surname)
    ELSE NameTriple(given_names[1], join(Tail(given_names)), surname)

\* lines 158-165: first word, last word, and what lies between them
SpaceName(parts) ==
    IF Len(parts) = 1 THEN NameTriple(parts[1], <<>>, <<>>)
    ELSE IF Len(parts) = 2 THEN NameTriple(parts[1], <<>>, parts[2])
    ELSE NameTriple(parts[1], join(SubSeq(parts, 2, Len(parts) - 1)), parts[Len(parts)])

NameFrom(name_str, parts) ==
    IF name_str = <<>> THEN NameTriple(<<>>, <<>>, <<>>)
    ELSE IF Len(parts) >= 2 THEN SlashName(split(parts[1]), parts[2])
    ELSE SpaceName(split(strip(name_str)))

parse_name(name_str) == NameFrom(name_str, SlashParts(name_str))

\* ---------------------------------------------------------------- PersonMatcher._parse_date
None == <<>>
Date(y, m, d) == <<y, m, d>>
Year(dt) == dt[1]

month_map == <<<<"J","A","N">>, <<"F","E","B">>, <<"M","A","R">>, <<"A","P","R">>, <<"M","A","Y">>, <<"J","U","N">>, <<"J","U","L">>, <<"A","U","G">>, <<"S","E","P">>, <<"O","C","T">>, <<"N","O","V">>, <<"D","E","C">>>>

RECURSIVE Number(_)
Number(s) == IF s = <<>> THEN 0 ELSE 10 * Number(SubSeq(s, 1, Len(s) - 1)) + DigitVal(s[Len(s)])

AllDigits(s) == \A i \in 1..Len(s) : IsDigit(s[i])

\* datetime.date(year, month, day) raises ValueError outside the calendar
IsLeap(y) == (y % 4 = 0 /\ y % 100 # 0) \/ y % 400 = 0
DaysInMonth(y, m) ==
    IF m = 2 THEN (IF IsLeap(y) THEN 29 ELSE 28)
    ELSE IF m \in {4, 6, 9, 11} THEN 30 ELSE 31
ValidDate(y, m, d) == y \in 1..9999 /\ m \in 1..12 /\ d \in 1..DaysInMonth(y, m)

\* what a pattern gives: the (year, month, day) handed to date(), or no match
NoMatch == [matched |-> FALSE]
Groups(y, m, d) == [matched |-> TRUE, year |-> y, month |-> m, day |-> d]
Digits4(r) == Len(r) >= 4 /\ AllDigits(SubSeq(r, 1, 4))

\* r'(\d{1,2})\s+(JAN|...|DEC)\s+(\d{4})' matched at the start of the upper-cased text:
\* the day's digits, then the month after the blanks, then the year after the blanks
\* the (\d{4}) that ends both three-group patterns
YearGroup(month, day, r) ==
    IF Digits4(r) THEN Groups(Number(SubSeq(r, 1, 4)), month, day) ELSE NoMatch
DMYMonth(day, r) ==
    IF Len(r) >= 3 /\ Has(month_map, SubSeq(r, 1, 3)) /\ SpaceRun(Drop(r, 3)) >= 1
    THEN YearGroup(IndexOf(month_map, SubSeq(r, 1, 3)), day, lstrip(Drop(r, 3)))
    ELSE NoMatch
DMYDay(u, n) ==
    IF n \in {1, 2} /\ SpaceRun(Drop(u, n)) >= 1
    THEN DMYMonth(Number(SubSeq(u, 1, n)), lstrip(Drop(u, n)))
    ELSE NoMatch
MatchDMY(u) == DMYDay(u, DigitRun(u))

\* the year alone taken for the last day of that year
MatchY_YearEnd(u) == IF Digits4(u) THEN Groups(Number(SubSeq(u, 1, 4)), 12, 31) ELSE NoMatch

\* r'(\d{4})'
MatchY(u) == IF Digits4(u) THEN Groups(Number(SubSeq(u, 1, 4)), 1, 1) ELSE NoMatch

\* r'(\d{1,2})/(\d{1,2})/(\d{4})': the month's digits, the day's digits, the year
MDYDay(month, r, n) ==
    IF n \in {1, 2} /\ Len(r) > n /\ r[n + 1] = "/"
    THEN YearGroup(month, Number(SubSeq(r, 1, n)), Drop(r, n + 1))
    ELSE NoMatch
MDYMonth(u, n) ==
    IF n \in {1, 2} /\ Len(u) > n /\ u[n + 1] = "/"
    THEN MDYDay(Number(SubSeq(u, 1, n)), Drop(u, n + 1), DigitRun(Drop(u, n + 1)))
    ELSE NoMatch
MatchMDY(u) == MDYMonth(u, DigitRun(u))

\* the loop over the patterns: the first that matches decides
FirstMatch(m, others) == IF m.matched THEN m ELSE others
DateGroups(u) == FirstMatch(MatchDMY(u), FirstMatch(MatchY(u), MatchMDY(u)))

\* date(year, month, day) of the groups: ValueError outside the calendar
GroupsRaise(date_str, g) ==
    date_str # <<>> /\ g.matched /\ ~ValidDate(g.year, g.month, g.day)
GroupsDate(date_str, g) ==
    IF date_str = <<>> \/ ~g.matched THEN None ELSE Date(g.year, g.month, g.day)

parse_date_raises(date_str) == GroupsRaise(date_str, DateGroups(upper(date_str)))

parse_date(date_str) == GroupsDate(date_str, DateGroups(upper(date_str)))
\* ---------------------------------------------------------------- GEDCOMParser
\* A Python dict is its entries in insertion order: assigning an existing key
\* keeps the key's position and replaces its value.
Entry(k, kind, v) == [k |-> k, kind |-> kind, v |-> v]
DictHas(d, k) == \E i \in 1..Len(d) : d[i].k = k
DictIdx(d, k) == CHOOSE i \in 1..Len(d) : d[i].k = k
DictSet(d, e) == IF DictHas(d, e.k) THEN [d EXCEPT ![DictIdx(d, e.k)] = e] ELSE Append(d, e)
DictGet(d, k) == d[DictIdx(d, k)]

\* None as a record id: no text equals it
NoneId == <<"None">>
Record(id, type) == [id |-> id, type |-> type, data |-> <<>>]

ListTags == {<<"C","H","I","L">>, <<"H","U","S","B">>, <<"W","I","F","E">>}
EventTags == {<<"B","I","R","T">>, <<"D","E","A","T">>, <<"M","A","R","R">>, <<"D","I","V">>, <<"E","M","I","G">>, <<"I","M","M","I">>, <<"N","A","T","U">>}

\* line.split(' ', 2): at most two cuts, each at a single space
RECURSIVE split_max(_, _, _)
split_max(s, sep, n) ==
    IF n = 0 \/ ~Has(s, sep) THEN <<s>>
    ELSE LET k == IndexOf(s, sep)
         IN  <<SubSeq(s, 1, k - 1)>> \o split_max(Drop(s, k), sep, n - 1)

\* int(text): an optional sign and decimal digits
IsInt(s) ==
    LET body == IF s # <<>> /\ Head(s) \in {"+", "-"} THEN Tail(s) ELSE s
    IN  body # <<>> /\ AllDigits(body)
int(s) ==
    IF Head(s) = "-" THEN 0 - Number(Tail(s))
    ELSE IF Head(s) = "+" THEN Number(Tail(s)) ELSE Number(s)

NoRecord == [type |-> "None", id |-> NoneId]
ParserInit == [individuals |-> <<>>, families |-> <<>>, current_record |-> NoRecord]

\* self.current_record is the record last stored under its id in the table of its type
CurrentTable(st) == IF st.current_record.type = "INDI" THEN st.individuals ELSE st.families
CurrentData(st) == DictGet(CurrentTable(st), st.current_record.id).v.data
StoreRecord(st, id, rec) ==
    IF st.current_record.type = "INDI"
    THEN [st EXCEPT !.individuals = DictSet(@, Entry(id, "record", rec))]
    ELSE [st EXCEPT !.families = DictSet(@, Entry(id, "record", rec))]
SetCurrentData(st, data) ==
    StoreRecord(st, st.current_record.id,
                [DictGet(CurrentTable(st), st.current_record.id).v EXCEPT !.data = data])

\* the last key, in insertion order, whose value is a dict
DictKeys(data) == {i \in 1..Len(data) : data[i].kind = "dict"}
ParentIdx(data) == CHOOSE i \in DictKeys(data) : \A j \in DictKeys(data) : j <= i

\* lines 91-95 and 103-107: first occurrence of a sub-tag under the parent wins
AttachUnder(st, data, p, tag, value) ==
    IF DictHas(data[p].v, tag) THEN st
    ELSE SetCurrentData(st, [data EXCEPT ![p].v = Append(@, Entry(tag, "str", value))])

\* the level-2 and level-3 branches
AttachTo(st, data, tag, value) ==
    IF DictKeys(data) = {} THEN st ELSE AttachUnder(st, data, ParentIdx(data), tag, value)
AttachNested(st, tag, value) == AttachTo(st, CurrentData(st), tag, value)

line_raises(line) ==
    LET parts == split_max(line, " ", 2)
    IN  Len(parts) >= 2 /\ ~IsInt(parts[1])

\* a level-0 line of another tag leaves the current record open
StartRecord_KeepsOpen(st, record_id, tag) ==
    IF tag = <<"I","N","D","I">>
    THEN [st EXCEPT !.current_record = [type |-> "INDI", id |-> record_id],
                    !.individuals = DictSet(@, Entry(record_id, "record", Record(record_id, "INDI")))]
    ELSE IF tag = <<"F","A","M">>
    THEN [st EXCEPT !.current_record = [type |-> "FAM", id |-> record_id],
                    !.families = DictSet(@, Entry(record_id, "record", Record(record_id, "FAM")))]
    ELSE st

\* lines 65-73: a level-0 line opens a record or closes the current one
StartRecord(st, record_id, tag) ==
    IF tag = <<"I","N","D","I">>
    THEN [st EXCEPT !.current_record = [type |-> "INDI", id |-> record_id],
                    !.individuals = DictSet(@, Entry(record_id, "record", Record(record_id, "INDI")))]
    ELSE IF tag = <<"F","A","M">>
    THEN [st EXCEPT !.current_record = [type |-> "FAM", id |-> record_id],
                    !.families = DictSet(@, Entry(record_id, "record", Record(record_id, "FAM")))]
    ELSE [st EXCEPT !.current_record = NoRecord]

\* a list tag holds the value of its last line only
FieldEntry_LastOnly(data, tag, value) ==
    IF tag \in ListTags THEN Entry(tag, "list", <<value>>)
    ELSE IF tag \in EventTags THEN Entry(tag, "dict", <<>>)
    ELSE Entry(tag, "str", value)

\* lines 74-83: a level-1 line sets a field of the current record
FieldEntry(data, tag, value) ==
    IF tag \in ListTags
    THEN Entry(tag, "list", Append(IF DictHas(data, tag) THEN DictGet(data, tag).v ELSE <<>>, value))
    ELSE IF tag \in EventTags THEN Entry(tag, "dict", <<>>)
    ELSE Entry(tag, "str", value)
SetField(st, data, tag, value) == SetCurrentData(st, DictSet(data, FieldEntry(data, tag, value)))

\* lines 64-107: the branch the level selects
HandleTag(st, level, record_id, tag, value) ==
    IF level = 0 THEN StartRecord(st, record_id, tag)
    ELSE IF st.current_record # NoRecord /\ level = 1 THEN SetField(st, CurrentData(st), tag, value)
    ELSE IF st.current_record # NoRecord /\ level \in {2, 3} THEN AttachNested(st, tag, value)
    ELSE st

\* lines 53-62: '@...@' in second place is the record's id, and the tag then follows it
HandleFields(st, level, tag_or_id, rest) ==
    IF tag_or_id # <<>> /\ Head(tag_or_id) = "@" /\ tag_or_id[Len(tag_or_id)] = "@"
    THEN HandleTag(st, level, tag_or_id, rest, rest)
    ELSE HandleTag(st, level, NoneId, tag_or_id, rest)

\* lines 45-51
HandleParts(st, parts) ==
    IF Len(parts) < 2 THEN st
    ELSE HandleFields(st, int(parts[1]), parts[2], IF Len(parts) > 2 THEN parts[3] ELSE <<>>)

parse_line(st, line) == HandleParts(st, split_max(line, " ", 2))

\* the exception of a bad line swallowed, but the current record closed with it
StripLine_Closing(st, line) ==
    IF line = <<>> THEN st
    ELSE IF line_raises(line) THEN [st EXCEPT !.current_record = NoRecord]
    ELSE parse_line(st, line)

\* one iteration of parse(): strip, skip blank lines, swallow the exception of a bad line
StripLine(st, line) == IF line = <<>> \/ line_raises(line) THEN st ELSE parse_line(st, line)
parse_step(st, raw) == StripLine(st, strip(raw))

\* the loop of parse(); comparing the states settles each line's state before the
\* next line is read
RECURSIVE parse_from(_, _)
RECURSIVE ParseRest(_, _, _)
ParseRest(st, after, lines) ==
    IF after = st THEN parse_from(st, lines) ELSE parse_from(after, lines)
parse_from(st, lines) ==
    IF lines = <<>> THEN st ELSE ParseRest(st, parse_step(st, Head(lines)), Tail(lines))

parse(lines) == parse_from(ParserInit, lines)
\* ---------------------------------------------------------------- the store (person/models.py)
\* A table is the sequence of its rows in primary-key order; a row's pk is its index.
EmptyStore ==
    [persons |-> <<>>, names |-> <<>>, person_names |-> <<>>, parent_child |-> <<>>,
     births |-> <<>>, deaths |-> <<>>, immigrations |-> <<>>, citizenships |-> <<>>,
     marriages |-> <<>>, divorces |-> <<>>]

Rows(tbl) == 1..Len(tbl)
Result(db, exc) == [db |-> db, exc |-> exc]

\* Person.birth / Person.death: .first() of the person's events
BirthsOf(db, pid) == {i \in Rows(db.births) : db.births[i].person = pid}
HasBirth(db, pid) == BirthsOf(db, pid) # {}
Birth(db, pid) == db.births[CHOOSE i \in BirthsOf(db, pid) : \A j \in BirthsOf(db, pid) : i <= j]
HasDeath(db, pid) == \E i \in Rows(db.deaths) : db.deaths[i].person = pid

\* person.names.all(): the Name rows linked through PersonName
NamesOf(db, pid) == {db.person_names[i].name : i \in {j \in Rows(db.person_names) : db.person_names[j].person = pid}}

\* Person.save(update_fields=[field]) on the in-memory object whose is_living is `living`:
\* writes the field, then closes is_living when a death event exists
PersonSave(db, pid, field, value, living) ==
    LET db1 == [db EXCEPT !.persons[pid][field] = value]
    IN  IF HasDeath(db1, pid) /\ living
        THEN [db |-> [db1 EXCEPT !.persons[pid].is_living = FALSE], living |-> FALSE]
        ELSE [db |-> db1, living |-> living]

\* DeathEvent.save reduced to super().save(): the person stays as it was
DeathSave_Unhooked(db, row, living) ==
    [db |-> [db EXCEPT !.deaths = Append(@, row)], living |-> living]

\* DeathEvent.save of a new row, with the in-memory person it was given
DeathSave(db, row, living) ==
    LET db1 == [db EXCEPT !.deaths = Append(@, row)]
    IN  IF living
        THEN [db |-> [db1 EXCEPT !.persons[row.person].is_living = FALSE], living |-> FALSE]
        ELSE [db |-> db1, living |-> living]

\* ParentChildRelationship.save of a new row: the many-to-many sides already hold the
\* pair once the row is written, so neither add() runs
ParentChildLinks(db, parent, child) ==
    {i \in Rows(db.parent_child) : db.parent_child[i].parent = parent /\ db.parent_child[i].child = child}
ParentChildSave(db, parent, child) ==
    LET row == [parent |-> parent, child |-> child]
        db1 == [db EXCEPT !.parent_child = Append(@, row)]
    IN  IF ParentChildLinks(db1, parent, child) = {}
        THEN [db1 EXCEPT !.parent_child = Append(@, row)]
        ELSE db1

\* ---- couple events: kind is "marriages" or "divorces"
CoupleMatches(tbl, person, other_person, date) ==
    {i \in Rows(tbl) : tbl[i].person = person /\ tbl[i].other_person = other_person /\ tbl[i].date = date}
CouplePair(tbl, person, other_person) ==
    {i \in Rows(tbl) : tbl[i].person = person /\ tbl[i].other_person = other_person}

MarriageRow(person, other_person, date, location, comment) ==
    [person |-> person, other_person |-> other_person, date |-> date,
     location |-> location, comment |-> comment, ended |-> FALSE]
DivorceRow(person, other_person, date, location, comment) ==
    [person |-> person, other_person |-> other_person, date |-> date,
     location |-> location, comment |-> comment]
CoupleRow(kind, person, other_person, date, location, comment) ==
    IF kind = "marriages" THEN MarriageRow(person, other_person, date, location, comment)
    ELSE DivorceRow(person, other_person, date, location, comment)

\* DivorceEvent.save without its two updates: the marriages stay as they are
EndMarriages_Skipped(db, person, other_person) == db

\* the two filter(...).update(ended=True) of DivorceEvent.save
EndMarriages(db, person, other_person) ==
    LET m == db.marriages
    IN  [db EXCEPT !.marriages =
            [i \in Rows(m) |->
                IF \/ (m[i].person = person /\ m[i].other_person = other_person)
                   \/ (m[i].person = other_person /\ m[i].other_person = person)
                THEN [m[i] EXCEPT !.ended = TRUE] ELSE m[i]]]

\* the mirror row get_or_create builds from the lookup and the defaults
MirrorOf(kind, self) ==
    CoupleRow(kind, self.other_person, self.person, self.date, self.location, self.comment)

\* CoupleEvent.save after super().save() has written row i of the table
RECURSIVE couple_save(_, _, _, _, _)
RECURSIVE event_save(_, _, _, _, _)
couple_save(db, kind, i, is_new, skip_symmetric) ==
    LET self == db[kind][i]
        found == CoupleMatches(db[kind], self.other_person, self.person, self.date)
    IN  IF skip_symmetric THEN Result(db, "")
        ELSE IF Cardinality(found) > 1 THEN Result(db, "MultipleObjectsReturned")
        ELSE IF found = {}
        THEN \* create(): the insert and the mirror's own save() share one atomic block
             LET db1 == [db EXCEPT ![kind] = Append(@, MirrorOf(kind, self))]
                 r == event_save(db1, kind, Len(db1[kind]), TRUE, FALSE)
             IN  IF r.exc # "" THEN Result(db, r.exc) ELSE r
        ELSE IF ~is_new
        THEN LET j == CHOOSE j \in found : TRUE
                 db1 == [db EXCEPT ![kind][j].location = self.location,
                                   ![kind][j].comment = self.comment,
                                   ![kind][j].date = self.date]
             IN  event_save(db1, kind, j, FALSE, TRUE)
        ELSE Result(db, "")

\* MarriageEvent.save is CoupleEvent.save; DivorceEvent.save then closes the marriages
event_save(db, kind, i, is_new, skip_symmetric) ==
    LET r == couple_save(db, kind, i, is_new, skip_symmetric)
        self == db[kind][i]
    IN  IF kind = "divorces" /\ r.exc = ""
        THEN Result(EndMarriages(r.db, self.person, self.other_person), "")
        ELSE r

\* Model.objects.create(...): the insert, then the save hook; no transaction around both
couple_create(db, kind, row) ==
    LET db1 == [db EXCEPT ![kind] = Append(@, row)]
    IN  event_save(db1, kind, Len(db1[kind]), TRUE, FALSE)

\* unique_marriage_per_couple_date / unique_divorce_per_couple_date: NULL dates never collide
UniqueViolation(tbl, row, except) ==
    /\ row.date # None
    /\ CoupleMatches(tbl, row.person, row.other_person, row.date) \ {except} # {}

\* ---------------------------------------------------------------- PersonMatcher
common_nicknames == <<
    [full |-> <<"w","i","l","l","i","a","m">>, nicks |-> {<<"b","i","l","l">>, <<"b","i","l","l","y">>}],
    [full |-> <<"r","o","b","e","r","t">>, nicks |-> {<<"b","o","b">>, <<"b","o","b","b","y">>}],
    [full |-> <<"r","i","c","h","a","r","d">>, nicks |-> {<<"d","i","c","k">>, <<"r","i","c","k">>}],
    [full |-> <<"j","a","m","e","s">>, nicks |-> {<<"j","i","m">>, <<"j","i","m","m","y">>}],
    [full |-> <<"j","o","s","e","p","h">>, nicks |-> {<<"j","o","e">>, <<"j","o","e","y">>}],
    [full |-> <<"m","i","c","h","a","e","l">>, nicks |-> {<<"m","i","k","e">>, <<"m","i","k","e","y">>}],
    [full |-> <<"c","h","r","i","s","t","o","p","h","e","r">>, nicks |-> {<<"c","h","r","i","s">>}],
    [full |-> <<"d","a","n","i","e","l">>, nicks |-> {<<"d","a","n">>, <<"d","a","n","n","y">>}],
    [full |-> <<"m","a","t","t","h","e","w">>, nicks |-> {<<"m","a","t","t">>}],
    [full |-> <<"a","n","d","r","e","w">>, nicks |-> {<<"a","n","d","y">>}],
    [full |-> <<"j","o","n","a","t","h","a","n">>, nicks |-> {<<"j","o","n">>}],
    [full |-> <<"b","e","n","j","a","m","i","n">>, nicks |-> {<<"b","e","n">>, <<"b","e","n","n","y">>}],
    [full |-> <<"n","i","c","h","o","l","a","s">>, nicks |-> {<<"n","i","c","k">>}],
    [full |-> <<"a","l","e","x","a","n","d","e","r">>, nicks |-> {<<"a","l","e","x">>}],
    [full |-> <<"e","l","i","z","a","b","e","t","h">>, nicks |-> {<<"l","i","z">>, <<"b","e","t","h">>}],
    [full |-> <<"m","a","r","g","a","r","e","t">>, nicks |-> {<<"m","a","g","g","i","e">>}],
    [full |-> <<"p","a","t","r","i","c","i","a">>, nicks |-> {<<"p","a","t">>}],
    [full |-> <<"j","e","n","n","i","f","e","r">>, nicks |-> {<<"j","e","n">>}],
    [full |-> <<"s","t","e","p","h","a","n","i","e">>, nicks |-> {<<"s","t","e","p","h">>}],
    [full |-> <<"c","a","t","h","e","r","i","n","e">>, nicks |-> {<<"c","a","t","h","y">>}],
    [full |-> <<"p","e","t","e","r">>, nicks |-> {<<"p","e","t","e">>}],
    [full |-> <<"c","h","r","i","s","t","i","n","a">>, nicks |-> {<<"t","i","n","a">>}] >>

\* the lookup with its second test left out: only full name -> nickname is recognised
NicknameIn_OneWay(nicknames, name1, name2) ==
    \E k \in 1..Len(nicknames) : name1 = nicknames[k].full /\ name2 \in nicknames[k].nicks

NicknameIn(nicknames, name1, name2) ==
    \E k \in 1..Len(nicknames) :
        \/ (name1 = nicknames[k].full /\ name2 \in nicknames[k].nicks)
        \/ (name2 = nicknames[k].full /\ name1 \in nicknames[k].nicks)
is_nickname(name1, name2) == NicknameIn(common_nicknames, name1, name2)

names_match(first1, middle1, last1, first2, middle2, last2, strict) ==
    LET f1 == strip(lower(first1))
        f2 == strip(lower(first2))
        l1 == strip(lower(last1))
        l2 == strip(lower(last2))
    IN  IF f1 = <<>> \/ f2 = <<>> \/ l1 = <<>> \/ l2 = <<>> THEN FALSE
        ELSE IF l1 # l2 THEN FALSE
        ELSE IF f1 = f2 THEN TRUE
        ELSE IF ~strict THEN is_nickname(f1, f2)
        ELSE FALSE

\* the lenient tolerance one year short
dates_match_Narrow(date1, date2, strict) ==
    IF date1 = date2 THEN TRUE
    ELSE IF strict THEN Year(date1) = Year(date2)
    ELSE Year(date1) - Year(date2) \in {-1, 0, 1}

\* the strict tolerance wider than the lenient one
dates_match_StrictWider(date1, date2, strict) ==
    IF date1 = date2 THEN TRUE
    ELSE IF strict THEN Year(date1) - Year(date2) \in -3..3
    ELSE Year(date1) - Year(date2) \in -2..2

Abs(n) == IF n < 0 THEN 0 - n ELSE n
dates_match(date1, date2, strict) ==
    IF date1 = date2 THEN TRUE
    ELSE LET year_diff == Abs(Year(date1) - Year(date2))
         IN  IF strict THEN year_diff = 0 ELSE year_diff <= 2

\* the date test made even when the incoming record or the candidate has no birth date
is_match_DateRequired(db, pid, first_name, middle_name, last_name, birth_date, strict) ==
    \E n \in NamesOf(db, pid) :
        /\ names_match(first_name, middle_name, last_name,
                       db.names[n].first_name, db.names[n].middle_name, db.names[n].last_name, strict)
        /\ birth_date # None /\ HasBirth(db, pid) /\ Birth(db, pid).date # None
        /\ dates_match(birth_date, Birth(db, pid).date, strict)

is_match(db, pid, first_name, middle_name, last_name, birth_date, strict) ==
    \E n \in NamesOf(db, pid) :
        /\ names_match(first_name, middle_name, last_name,
                       db.names[n].first_name, db.names[n].middle_name, db.names[n].last_name, strict)
        /\ \/ ~(birth_date # None /\ HasBirth(db, pid) /\ Birth(db, pid).date # None)
           \/ dates_match(birth_date, Birth(db, pid).date, strict)

\* data.get(tag, '') with the isinstance(..., str) guard of the callers
StrField(data, tag) ==
    IF DictHas(data, tag) /\ DictGet(data, tag).kind = "str" THEN DictGet(data, tag).v ELSE <<>>
\* data[tag] with the isinstance(..., dict) guard: the event's sub-mapping
EventData(data, tag) ==
    IF DictHas(data, tag) /\ DictGet(data, tag).kind = "dict" THEN DictGet(data, tag).v ELSE <<>>
SubField(sub, tag) == IF DictHas(sub, tag) THEN DictGet(sub, tag).v ELSE <<>>

\* the BIRT date text find_matching_person hands to _parse_date
MatcherBirthText(gedcom_person) == SubField(EventData(gedcom_person, <<"B","I","R","T">>), <<"D","A","T","E">>)

find_matching_person_raises(gedcom_person, existing_people) ==
    /\ existing_people # <<>>
    /\ \/ parse_name_raises(StrField(gedcom_person, <<"N","A","M","E">>))
       \/ parse_date_raises(MatcherBirthText(gedcom_person))

\* the pool's positions whose person matches the parsed name and birth date
Matches(db, existing_people, nm, birth_date, strict) ==
    {k \in 1..Len(existing_people) :
        is_match(db, existing_people[k], nm.first, nm.middle, nm.last, birth_date, strict)}
\* the loop without its early return: the last candidate that matches is returned
LastMatching(existing_people, hits) ==
    IF existing_people = <<>> \/ hits = {} THEN 0
    ELSE existing_people[CHOOSE k \in hits : \A j \in hits : k >= j]

FirstMatching(existing_people, hits) ==
    IF existing_people = <<>> \/ hits = {} THEN 0
    ELSE existing_people[CHOOSE k \in hits : \A j \in hits : k <= j]

\* the first person of the pool that matches, 0 for None
find_matching_person(db, gedcom_person, existing_people, strict) ==
    FirstMatching(existing_people,
                  Matches(db, existing_people, parse_name(StrField(gedcom_person, <<"N","A","M","E">>)),
                          parse_date(MatcherBirthText(gedcom_person)), strict))
\* ---------------------------------------------------------------- GEDCOMImporter
NewStats ==
    [individuals_created |-> 0, individuals_updated |-> 0, families_created |-> 0,
     relationships_created |-> 0, events_created |-> 0, names_created |-> 0,
     names_linked |-> 0, errors |-> <<>>]

\* What one record's import works on: the store, the counters, is_living of the run's
\* in-memory Person objects (by pk), the person at hand (0 for None, negative for a
\* MockPerson) and the exception that ended the import, "" while none has.
Context(db, stats, mem) == [db |-> db, stats |-> stats, mem |-> mem, person |-> 0, exc |-> ""]
Raise(c, exc) == [c EXCEPT !.exc = exc]
Count(c, counter) == [c EXCEPT !.stats[counter] = @ + 1]

\* objects.create in place of get_or_create: a row is added whatever the lookup finds
EventCreate(c, table, found, row) ==
    Count([c EXCEPT !.db[table] = Append(@, row)], "events_created")

\* update_or_create in place of get_or_create: an event found is given the incoming fields
EventUpdateOrCreate(c, table, found, row) ==
    IF Cardinality(found) > 1 THEN Raise(c, "MultipleObjectsReturned")
    ELSE IF found # {} THEN [c EXCEPT !.db[table][CHOOSE i \in found : TRUE] = row]
    ELSE Count([c EXCEPT !.db[table] = Append(@, row)], "events_created")

\* get_or_create of an event row: created and counted only when the lookup finds none
EventGetOrCreate(c, table, found, row) ==
    IF Cardinality(found) > 1 THEN Raise(c, "MultipleObjectsReturned")
    ELSE IF found # {} THEN c
    ELSE Count([c EXCEPT !.db[table] = Append(@, row)], "events_created")

\* update_or_create in place of the link's get_or_create: a link found is given type OTHER
ImportName_Relinking(c, nm, pretend) ==
    IF c.exc # "" THEN c
    ELSE IF pretend THEN Count(Count(c, "names_created"), "names_linked")
    ELSE
    LET row == [first_name |-> nm.first, middle_name |-> nm.middle, last_name |-> nm.last]
        found == {i \in Rows(c.db.names) : c.db.names[i] = row}
        c1 == IF found = {}
              THEN Count([c EXCEPT !.db.names = Append(@, row)], "names_created")
              ELSE c
        name == IF found = {} THEN Len(c1.db.names) ELSE CHOOSE i \in found : TRUE
        links == {i \in Rows(c1.db.person_names) :
                    c1.db.person_names[i].person = c.person /\ c1.db.person_names[i].name = name}
    IN  IF links # {}
        THEN [c1 EXCEPT !.db.person_names =
                [i \in Rows(@) |-> IF i \in links THEN [@[i] EXCEPT !.name_type = "other"] ELSE @[i]]]
        ELSE Count([c1 EXCEPT !.db.person_names =
                        Append(@, [person |-> c.person, name |-> name, name_type |-> "other"])],
                   "names_linked")

\* ---- _import_individual, lines 211-242: the name
ImportName(c, nm, pretend) ==
    IF c.exc # "" THEN c
    ELSE IF pretend THEN Count(Count(c, "names_created"), "names_linked")
    ELSE
    LET row == [first_name |-> nm.first, middle_name |-> nm.middle, last_name |-> nm.last]
        found == {i \in Rows(c.db.names) : c.db.names[i] = row}
    IN  IF Cardinality(found) > 1 THEN Raise(c, "MultipleObjectsReturned")
        ELSE
        LET c1 == IF found = {}
                  THEN Count([c EXCEPT !.db.names = Append(@, row)], "names_created")
                  ELSE c
            name == IF found = {} THEN Len(c1.db.names) ELSE CHOOSE i \in found : TRUE
            links == {i \in Rows(c1.db.person_names) :
                        c1.db.person_names[i].person = c.person /\ c1.db.person_names[i].name = name}
        IN  IF Cardinality(links) > 1 THEN Raise(c1, "MultipleObjectsReturned")
            ELSE IF links # {} THEN c1
            ELSE Count([c1 EXCEPT !.db.person_names =
                            Append(@, [person |-> c.person, name |-> name, name_type |-> "other"])],
                       "names_linked")

\* ---- _import_events
ImportBirth(c, data, pretend) ==
    IF c.exc # "" \/ ~DictHas(data, <<"B","I","R","T">>) THEN c
    ELSE
    LET birth_data == EventData(data, <<"B","I","R","T">>)
        date_text == SubField(birth_data, <<"D","A","T","E">>)
        birth_location == SubField(birth_data, <<"P","L","A","C">>)
        birth_date == parse_date(date_text)
        found == BirthsOf(c.db, c.person)
    IN  IF parse_date_raises(date_text) THEN Raise(c, "ValueError")
        ELSE IF birth_date # None \/ birth_location # <<>>
        THEN IF pretend THEN Count(c, "events_created")
             ELSE EventGetOrCreate(c, "births", found,
                    [person |-> c.person, date |-> birth_date, location |-> birth_location])
        ELSE c

ImportDeath(c, data, pretend) ==
    IF c.exc # "" \/ ~DictHas(data, <<"D","E","A","T">>) THEN c
    ELSE
    LET death_data == EventData(data, <<"D","E","A","T">>)
        date_text == SubField(death_data, <<"D","A","T","E">>)
        death_location == SubField(death_data, <<"P","L","A","C">>)
        death_cause == SubField(death_data, <<"C","A","U","S">>)
        death_date == parse_date(date_text)
        found == {i \in Rows(c.db.deaths) : c.db.deaths[i].person = c.person}
        row == [person |-> c.person, date |-> death_date, location |-> death_location,
                cause |-> death_cause]
    IN  IF parse_date_raises(date_text) THEN Raise(c, "ValueError")
        ELSE IF death_date # None \/ death_location # <<>> \/ death_cause # <<>>
        THEN IF pretend THEN Count(c, "events_created")
             ELSE IF Cardinality(found) > 1 THEN Raise(c, "MultipleObjectsReturned")
             ELSE IF found # {} THEN c
             ELSE LET s == DeathSave(c.db, row, c.mem[c.person])
                  IN  Count([c EXCEPT !.db = s.db, !.mem[c.person] = s.living], "events_created")
        ELSE c

\* IMMI: PLAC is the destination, PLAC_FROM the origin
ImportImmigration(c, data, pretend) ==
    IF c.exc # "" \/ ~DictHas(data, <<"I","M","M","I">>) THEN c
    ELSE
    LET immi_data == EventData(data, <<"I","M","M","I">>)
        date_text == SubField(immi_data, <<"D","A","T","E">>)
        immi_location == SubField(immi_data, <<"P","L","A","C">>)
        from_place == SubField(immi_data, <<"P","L","A","C","_","F","R","O","M">>)
        immi_date == parse_date(date_text)
        mine == {i \in Rows(c.db.immigrations) : c.db.immigrations[i].person = c.person}
        row == [person |-> c.person, date |-> immi_date, from_country |-> from_place,
                to_country |-> immi_location, location |-> immi_location]
    IN  IF parse_date_raises(date_text) THEN Raise(c, "ValueError")
        ELSE IF immi_date # None
        THEN IF pretend THEN Count(c, "events_created")
             ELSE EventGetOrCreate(c, "immigrations",
                    {i \in mine : c.db.immigrations[i].date = immi_date}, row)
        ELSE IF immi_location # <<>> \/ from_place # <<>>
        THEN IF pretend THEN Count(c, "events_created")
             ELSE EventGetOrCreate(c, "immigrations", mine, row)
        ELSE c

\* EMIG read as IMMI is: PLAC the destination, PLAC_TO kept for the origin
ImportEmigration_Unswapped(c, data, pretend) ==
    IF c.exc # "" \/ ~DictHas(data, <<"E","M","I","G">>) THEN c
    ELSE
    LET emig_data == EventData(data, <<"E","M","I","G">>)
        date_text == SubField(emig_data, <<"D","A","T","E">>)
        emig_location == SubField(emig_data, <<"P","L","A","C">>)
        to_place == SubField(emig_data, <<"P","L","A","C","_","T","O">>)
        emig_date == parse_date(date_text)
        mine == {i \in Rows(c.db.immigrations) : c.db.immigrations[i].person = c.person}
        row == [person |-> c.person, date |-> emig_date, from_country |-> to_place,
                to_country |-> emig_location, location |-> emig_location]
    IN  IF parse_date_raises(date_text) THEN Raise(c, "ValueError")
        ELSE IF emig_date # None
        THEN IF pretend THEN Count(c, "events_created")
             ELSE EventGetOrCreate(c, "immigrations",
                    {i \in mine : c.db.immigrations[i].date = emig_date}, row)
        ELSE IF emig_location # <<>> \/ to_place # <<>>
        THEN IF pretend THEN Count(c, "events_created")
             ELSE EventGetOrCreate(c, "immigrations", mine, row)
        ELSE c

\* EMIG: PLAC is the origin, PLAC_TO the destination
ImportEmigration(c, data, pretend) ==
    IF c.exc # "" \/ ~DictHas(data, <<"E","M","I","G">>) THEN c
    ELSE
    LET emig_data == EventData(data, <<"E","M","I","G">>)
        date_text == SubField(emig_data, <<"D","A","T","E">>)
        emig_location == SubField(emig_data, <<"P","L","A","C">>)
        to_place == SubField(emig_data, <<"P","L","A","C","_","T","O">>)
        emig_date == parse_date(date_text)
        mine == {i \in Rows(c.db.immigrations) : c.db.immigrations[i].person = c.person}
        row == [person |-> c.person, date |-> emig_date, from_country |-> emig_location,
                to_country |-> to_place, location |-> emig_location]
    IN  IF parse_date_raises(date_text) THEN Raise(c, "ValueError")
        ELSE IF emig_date # None
        THEN IF pretend THEN Count(c, "events_created")
             ELSE EventGetOrCreate(c, "immigrations",
                    {i \in mine : c.db.immigrations[i].date = emig_date}, row)
        ELSE IF emig_location # <<>> \/ to_place # <<>>
        THEN IF pretend THEN Count(c, "events_created")
             ELSE EventGetOrCreate(c, "immigrations", mine, row)
        ELSE c

ImportCitizenship(c, data, pretend) ==
    IF c.exc # "" \/ ~DictHas(data, <<"N","A","T","U">>) THEN c
    ELSE
    LET natu_data == EventData(data, <<"N","A","T","U">>)
        date_text == SubField(natu_data, <<"D","A","T","E">>)
        natu_location == SubField(natu_data, <<"P","L","A","C">>)
        natu_date == parse_date(date_text)
        mine == {i \in Rows(c.db.citizenships) : c.db.citizenships[i].person = c.person}
        row == [person |-> c.person, date |-> natu_date, country |-> natu_location,
                location |-> natu_location]
    IN  IF parse_date_raises(date_text) THEN Raise(c, "ValueError")
        ELSE IF natu_date # None
        THEN IF pretend THEN Count(c, "events_created")
             ELSE EventGetOrCreate(c, "citizenships",
                    {i \in mine : c.db.citizenships[i].date = natu_date}, row)
        ELSE IF natu_location # <<>>
        THEN IF pretend THEN Count(c, "events_created")
             ELSE EventGetOrCreate(c, "citizenships", mine, row)
        ELSE c

import_events(c, data, pretend) ==
    ImportCitizenship(
        ImportEmigration(
            ImportImmigration(
                ImportDeath(
                    ImportBirth(c, data, pretend), data, pretend), data, pretend), data, pretend),
        data, pretend)

\* ---- _import_gender
\* every value but F taken for male
gender_map_Male(sex) == IF sex = <<"F">> THEN "F" ELSE "M"

gender_map(sex) == IF sex = <<"M">> THEN "M" ELSE IF sex = <<"F">> THEN "F" ELSE "U"

\* _import_gender without the pretend branch: the write happens in a dry run too, and
\* fails on a MockPerson, which has no save()
import_gender_unguarded(c, data, pretend) ==
    LET sex == StrField(data, <<"S","E","X">>)
    IN  IF c.exc # "" \/ sex = <<>> THEN c
        ELSE IF c.person <= 0 THEN Raise(c, "AttributeError")
        ELSE LET s == PersonSave(c.db, c.person, "gender", gender_map(sex), c.mem[c.person])
             IN  [c EXCEPT !.db = s.db, !.mem[c.person] = s.living]

import_gender(c, data, pretend) ==
    LET sex == StrField(data, <<"S","E","X">>)
    IN  IF c.exc # "" \/ sex = <<>> \/ pretend THEN c
        ELSE LET s == PersonSave(c.db, c.person, "gender", gender_map(sex), c.mem[c.person])
             IN  [c EXCEPT !.db = s.db, !.mem[c.person] = s.living]

\* the in-memory persons by pk, up to pk n: a pk the run holds no object for (a row
\* another process wrote after the run loaded its pool) is filled in and never read
Loaded(mem, n) == mem \o [i \in 1..(n - Len(mem)) |-> TRUE]

\* ---- _import_individual; `mock` is the MockPerson a pretend run would make
\* lines 196-209: the matched person, a MockPerson, or a new row
PersonFor(c, existing_person, pretend, mock) ==
    IF existing_person # 0
    THEN Count([c EXCEPT !.person = existing_person], "individuals_updated")
    ELSE IF pretend
    THEN Count([c EXCEPT !.person = mock], "individuals_created")
    ELSE Count([c EXCEPT !.db.persons = Append(@, [gender |-> "U", is_living |-> TRUE]),
                         !.mem = Append(Loaded(@, Len(c.db.persons)), TRUE),
                         !.person = Len(c.db.persons) + 1],
               "individuals_created")

\* the check of line 189 left out: a person is made for a record without a name
ImportNamed_Unnamed(c, data, nm, existing_people, pretend, strict, mock) ==
    IF find_matching_person_raises(data, existing_people) THEN Raise(c, "ValueError")
    ELSE import_gender(
            import_events(
                ImportName(PersonFor(c, find_matching_person(c.db, data, existing_people, strict),
                                     pretend, mock),
                           nm, pretend),
                data, pretend),
            data, pretend)

\* lines 189-248, once the NAME value is parsed
ImportNamed(c, data, nm, existing_people, pretend, strict, mock) ==
    IF nm.first = <<>> /\ nm.last = <<>> THEN c
    ELSE IF find_matching_person_raises(data, existing_people) THEN Raise(c, "ValueError")
    ELSE import_gender(
            import_events(
                ImportName(PersonFor(c, find_matching_person(c.db, data, existing_people, strict),
                                     pretend, mock),
                           nm, pretend),
                data, pretend),
            data, pretend)

import_individual(c, individual, existing_people, pretend, strict, mock) ==
    IF parse_name_raises(StrField(individual.data, <<"N","A","M","E">>)) THEN Raise(c, "IndexError")
    ELSE ImportNamed(c, individual.data, parse_name(StrField(individual.data, <<"N","A","M","E">>)),
                     existing_people, pretend, strict, mock)

\* ---- _import_family
\* data.get(tag, [''])[0] of a list-valued tag, '' when the tag is absent
FirstOf(data, tag) ==
    IF DictHas(data, tag) /\ DictGet(data, tag).kind = "list" THEN DictGet(data, tag).v[1] ELSE <<>>
ListField(data, tag) ==
    IF DictHas(data, tag) /\ DictGet(data, tag).kind = "list" THEN DictGet(data, tag).v ELSE <<>>

\* person_map.get(id): 0 for None
MapGet(person_map, id) ==
    IF \E k \in 1..Len(person_map) : person_map[k].id = id
    THEN person_map[CHOOSE k \in 1..Len(person_map) : person_map[k].id = id].person
    ELSE 0

\* lines 505-543 (MARR) and 546-584 (DIV): the same code on the two event tables
ImportCoupleEvent(c, data, tag, kind, husband, wife, pretend) ==
    IF c.exc # "" THEN c
    ELSE
    LET event_data == EventData(data, tag)
        date_text == SubField(event_data, <<"D","A","T","E">>)
        location == SubField(event_data, <<"P","L","A","C">>)
        date == parse_date(date_text)
        tbl == c.db[kind]
    IN  IF parse_date_raises(date_text) THEN Raise(c, "ValueError")
        ELSE IF date # None
        THEN IF pretend THEN Count(c, "events_created")
             ELSE IF /\ CoupleMatches(tbl, husband, wife, date) = {}
                     /\ CoupleMatches(tbl, wife, husband, date) = {}
             THEN LET r == couple_create(c.db, kind, CoupleRow(kind, husband, wife, date, location, <<>>))
                  IN  IF r.exc # "" THEN Raise([c EXCEPT !.db = r.db], r.exc)
                      ELSE Count([c EXCEPT !.db = r.db], "events_created")
             ELSE c
        ELSE IF location # <<>>
        THEN IF pretend THEN Count(c, "events_created")
             ELSE LET found == CouplePair(tbl, husband, wife)
                  IN  IF Cardinality(found) > 1 THEN Raise(c, "MultipleObjectsReturned")
                      ELSE IF found # {} THEN Count(c, "events_created")
                      ELSE \* get_or_create's create(): rolled back when the save hook raises
                           LET r == couple_create(c.db, kind, CoupleRow(kind, husband, wife, None, location, <<>>))
                           IN  IF r.exc # "" THEN Raise(c, r.exc)
                               ELSE Count([c EXCEPT !.db = r.db], "events_created")
        ELSE c

\* objects.create in place of get_or_create: unique_parent_child rejects the second row
LinkCreate(c, parent, child) ==
    IF c.exc # "" THEN c
    ELSE IF ParentChildLinks(c.db, parent, child) # {} THEN Raise(c, "IntegrityError")
    ELSE Count([c EXCEPT !.db = ParentChildSave(c.db, parent, child)], "relationships_created")

\* get_or_create of one parent-child link
LinkGetOrCreate(c, parent, child) ==
    IF c.exc # "" THEN c
    ELSE LET found == ParentChildLinks(c.db, parent, child)
         IN  IF Cardinality(found) > 1 THEN Raise(c, "MultipleObjectsReturned")
             ELSE IF found # {} THEN c
             ELSE Count([c EXCEPT !.db = ParentChildSave(c.db, parent, child)], "relationships_created")

\* lines 587-622: the loop over the children
RECURSIVE ImportChildren(_, _, _, _, _, _)
ImportChildren(c, children_ids, person_map, husband, wife, pretend) ==
    IF c.exc # "" \/ children_ids = <<>> THEN c
    ELSE
    LET child_id == Head(children_ids)
        child == MapGet(person_map, child_id)
        c1 == IF child_id = <<>> \/ child = 0 THEN c
              ELSE IF pretend THEN Count(c, "relationships_created")
              ELSE LinkGetOrCreate(LinkGetOrCreate(c, husband, child), wife, child)
    IN  ImportChildren(c1, Tail(children_ids), person_map, husband, wife, pretend)

import_family(c, family, person_map, pretend) ==
    LET data == family.data
        husband == MapGet(person_map, FirstOf(data, <<"H","U","S","B">>))
        wife == MapGet(person_map, FirstOf(data, <<"W","I","F","E">>))
        children_ids == ListField(data, <<"C","H","I","L">>)
    IN  IF husband # 0 /\ wife # 0
        THEN ImportChildren(
                ImportCoupleEvent(
                    ImportCoupleEvent(c, data, <<"M","A","R","R">>, "marriages", husband, wife, pretend),
                    data, <<"D","I","V">>, "divorces", husband, wife, pretend),
                children_ids, person_map, husband, wife, pretend)
        ELSE c

\* ---------------------------------------------------------------- input files
\* The GEDCOM files a run may be given, each the sequence of its lines.
FamilyFile == <<
    <<"0"," ","H","E","A","D">>,
    <<"0"," ","@","I","1","@"," ","I","N","D","I">>, <<"1"," ","N","A","M","E"," ","J","o","h","n"," ","/","S","m","i","t","h","/">>, <<"2"," ","G","I","V","N"," ","J","o","h","n">>, <<"1"," ","S","E","X"," ","M">>,
    <<"1"," ","B","I","R","T">>, <<"2"," ","D","A","T","E"," ","1","5"," ","M","A","R"," ","1","9","8","0">>, <<"2"," ","P","L","A","C"," ","N","Y","C">>,
    <<"0"," ","@","I","2","@"," ","I","N","D","I">>, <<"1"," ","N","A","M","E"," ","M","a","r","y"," ","/","J","o","n","e","s","/">>, <<"1"," ","S","E","X"," ","F">>, <<"1"," ","B","I","R","T">>, <<"2"," ","D","A","T","E"," ","1","9","8","5">>,
    <<"0"," ","@","I","3","@"," ","I","N","D","I">>, <<"1"," ","N","A","M","E"," ","T","i","m"," ","/","S","m","i","t","h","/">>, <<"1"," ","B","I","R","T">>, <<"2"," ","D","A","T","E"," ","0","3","/","1","5","/","2","0","1","0">>,
    <<"0"," ","@","F","1","@"," ","F","A","M">>, <<"1"," ","H","U","S","B"," ","@","I","1","@">>, <<"1"," ","W","I","F","E"," ","@","I","2","@">>, <<"1"," ","C","H","I","L"," ","@","I","3","@">>,
    <<"1"," ","M","A","R","R">>, <<"2"," ","D","A","T","E"," ","5"," ","J","U","N"," ","2","0","0","5">>, <<"2"," ","P","L","A","C"," ","L","V">>, <<"1"," ","D","I","V">>, <<"2"," ","D","A","T","E"," ","2","0","1","0">>,
    <<"0"," ","T","R","L","R">> >>

\* the same couple: one family with a divorce only, one with an undated marriage
CoupleFile == <<
    <<"0"," ","@","I","1","@"," ","I","N","D","I">>, <<"1"," ","N","A","M","E"," ","J","o","h","n"," ","/","S","m","i","t","h","/">>, <<"1"," ","B","I","R","T">>, <<"2"," ","D","A","T","E"," ","1","5"," ","M","A","R"," ","1","9","8","0">>,
    <<"0"," ","@","I","2","@"," ","I","N","D","I">>, <<"1"," ","N","A","M","E"," ","M","a","r","y"," ","/","J","o","n","e","s","/">>, <<"1"," ","S","E","X"," ","X">>,
    <<"0"," ","@","F","1","@"," ","F","A","M">>, <<"1"," ","H","U","S","B"," ","@","I","1","@">>, <<"1"," ","W","I","F","E"," ","@","I","2","@">>, <<"1"," ","D","I","V">>, <<"2"," ","D","A","T","E"," ","2","0","1","0">>, <<"2"," ","P","L","A","C"," ","L","A">>,
    <<"0"," ","@","F","2","@"," ","F","A","M">>, <<"1"," ","H","U","S","B"," ","@","I","1","@">>, <<"1"," ","W","I","F","E"," ","@","I","2","@">>, <<"1"," ","M","A","R","R">>, <<"2"," ","P","L","A","C"," ","L","V">> >>

\* a given name only, and a family with one spouse
SingleParentFile == <<
    <<"0"," ","@","I","1","@"," ","I","N","D","I">>, <<"1"," ","N","A","M","E"," ","C","h","e","r">>, <<"1"," ","S","E","X"," ","F">>,
    <<"0"," ","@","I","2","@"," ","I","N","D","I">>, <<"1"," ","N","A","M","E"," ","T","i","m"," ","/","S","m","i","t","h","/">>,
    <<"0"," ","@","F","1","@"," ","F","A","M">>, <<"1"," ","W","I","F","E"," ","@","I","1","@">>, <<"1"," ","C","H","I","L"," ","@","I","2","@">>, <<"1"," ","C","H","I","L"," ","@","I","9","@">> >>

\* a child and a wife who carry the husband's name
NamesakeFile == <<
    <<"0"," ","@","I","1","@"," ","I","N","D","I">>, <<"1"," ","N","A","M","E"," ","J","o","h","n"," ","/","S","m","i","t","h","/">>,
    <<"0"," ","@","I","2","@"," ","I","N","D","I">>, <<"1"," ","N","A","M","E"," ","M","a","r","y"," ","/","J","o","n","e","s","/">>,
    <<"0"," ","@","I","3","@"," ","I","N","D","I">>, <<"1"," ","N","A","M","E"," ","j","o","h","n"," ","/","s","m","i","t","h","/">>, <<"1"," ","S","E","X"," ","M">>,
    <<"0"," ","@","F","1","@"," ","F","A","M">>, <<"1"," ","H","U","S","B"," ","@","I","1","@">>, <<"1"," ","W","I","F","E"," ","@","I","2","@">>, <<"1"," ","C","H","I","L"," ","@","I","3","@">>,
    <<"0"," ","@","F","2","@"," ","F","A","M">>, <<"1"," ","H","U","S","B"," ","@","I","1","@">>, <<"1"," ","W","I","F","E"," ","@","I","3","@">>, <<"1"," ","M","A","R","R">>, <<"2"," ","D","A","T","E"," ","2","0","0","5">> >>

\* nicknames, life events, a record without a name that two families refer to as husband
\* and as child, a date outside the calendar
EventsFile == <<
    <<"0"," ","@","I","1","@"," ","I","N","D","I">>, <<"1"," ","N","A","M","E"," ","P","e","t","e","r"," ","/","G","i","b","s","o","n","/">>, <<"1"," ","B","I","R","T">>, <<"2"," ","D","A","T","E"," ","1"," ","J","A","N"," ","1","9","8","0">>,
    <<"1"," ","D","E","A","T">>, <<"2"," ","C","A","U","S"," ","f","l","u">>, <<"1"," ","I","M","M","I">>, <<"2"," ","P","L","A","C"," ","U","S">>, <<"1"," ","E","M","I","G">>, <<"2"," ","D","A","T","E"," ","1","9","9","9">>, <<"2"," ","P","L","A","C"," ","U","K">>,
    <<"0"," ","@","I","2","@"," ","I","N","D","I">>, <<"1"," ","N","A","M","E"," ","P","e","t","e"," ","/","G","i","b","s","o","n","/">>, <<"1"," ","S","E","X"," ","M">>, <<"1"," ","B","I","R","T">>, <<"2"," ","D","A","T","E"," ","1","9","8","2">>,
    <<"1"," ","N","A","T","U">>, <<"2"," ","D","A","T","E"," ","2","0","0","1">>, <<"2"," ","P","L","A","C"," ","U","S">>,
    <<"0"," ","@","I","3","@"," ","I","N","D","I">>, <<"1"," ","S","E","X"," ","F">>,
    <<"0"," ","@","I","4","@"," ","I","N","D","I">>, <<"1"," ","N","A","M","E"," ","M","a","r","y"," ","/","J","o","n","e","s","/">>, <<"1"," ","D","E","A","T">>, <<"2"," ","D","A","T","E"," ","3","1"," ","F","E","B"," ","1","9","9","0">>,
    <<"0"," ","@","F","1","@"," ","F","A","M">>, <<"1"," ","H","U","S","B"," ","@","I","3","@">>, <<"1"," ","W","I","F","E"," ","@","I","2","@">>, <<"1"," ","C","H","I","L"," ","@","I","1","@">>, <<"1"," ","M","A","R","R">>, <<"2"," ","D","A","T","E"," ","2","0","0","0">>,
    <<"0"," ","@","F","2","@"," ","F","A","M">>, <<"1"," ","H","U","S","B"," ","@","I","1","@">>, <<"1"," ","W","I","F","E"," ","@","I","2","@">>, <<"1"," ","C","H","I","L"," ","@","I","3","@">>,
    <<"n","o","t"," ","a"," ","l","i","n","e">> >>

\* a later export: a death for a person other files know as living, an individual and a
\* family with a date outside the calendar, each followed by further records, the last
\* individual with an emigration and an immigration of different dates and a naturalization
FaultyFile == <<
    <<"0"," ","@","I","1","@"," ","I","N","D","I">>, <<"1"," ","N","A","M","E"," ","M","a","r","y"," ","/","J","o","n","e","s","/">>, <<"1"," ","S","E","X"," ","F">>, <<"1"," ","B","I","R","T">>, <<"2"," ","D","A","T","E"," ","1","9","8","5">>,
    <<"1"," ","D","E","A","T">>, <<"2"," ","D","A","T","E"," ","2","0","2","0">>, <<"2"," ","C","A","U","S"," ","f","l","u">>,
    <<"0"," ","@","I","2","@"," ","I","N","D","I">>, <<"1"," ","N","A","M","E"," ","A","n","n"," ","/","L","e","e","/">>, <<"1"," ","B","I","R","T">>, <<"2"," ","D","A","T","E"," ","3","0"," ","F","E","B"," ","1","9","9","0">>,
    <<"0"," ","@","I","3","@"," ","I","N","D","I">>, <<"1"," ","N","A","M","E"," ","B","o","b"," ","/","L","e","e","/">>, <<"1"," ","E","M","I","G">>, <<"2"," ","D","A","T","E"," ","1","9","9","9">>, <<"2"," ","P","L","A","C"," ","U","K">>, <<"3"," ","P","L","A","C","_","T","O"," ","U","S">>,
    <<"1"," ","I","M","M","I">>, <<"2"," ","D","A","T","E"," ","2","0","0","0">>, <<"2"," ","P","L","A","C"," ","U","S">>, <<"2"," ","P","L","A","C","_","F","R","O","M"," ","U","K">>, <<"1"," ","N","A","T","U">>, <<"2"," ","D","A","T","E"," ","2","0","0","1">>, <<"2"," ","P","L","A","C"," ","U","S">>,
    <<"0"," ","@","F","1","@"," ","F","A","M">>, <<"1"," ","H","U","S","B"," ","@","I","3","@">>, <<"1"," ","W","I","F","E"," ","@","I","1","@">>, <<"1"," ","M","A","R","R">>, <<"2"," ","D","A","T","E"," ","3","1"," ","A","P","R"," ","2","0","0","0">>,
    <<"0"," ","@","F","2","@"," ","F","A","M">>, <<"1"," ","H","U","S","B"," ","@","I","3","@">>, <<"1"," ","W","I","F","E"," ","@","I","1","@">>, <<"1"," ","C","H","I","L"," ","@","I","2","@">> >>

Files == <<FamilyFile, CoupleFile, SingleParentFile, NamesakeFile, EventsFile, FaultyFile>>
FileIds == 1..Len(Files)
\* parser.parse() of each file
Parsed == [f \in FileIds |-> parse(Files[f])]

\* the dates and the location and comment texts a saved couple event is given
SaveDates == {None, Date(2010, 1, 1)}
SaveTexts == {<<>>, <<"L","A">>}
\* the name types a saved link is given (PersonName.Type)
NameTypes == {"born as", "married as"}

\* the name parts a direct call of _names_match is given
ProbeFirst == {<<>>, <<"P","e","t","e">>, <<"p","e","t","e","r">>, <<"P","E","T","E","R">>, <<"B","i","l","l">>, <<"w","i","l","l","i","a","m">>}
ProbeMiddle == {<<>>, <<"A","n","n">>}
ProbeLast == {<<>>, <<"G","i","b","s","o","n">>, <<"G","I","B","S","O","N">>, <<"J","o","n","e","s">>}

\* the NAME and BIRT DATE values of the records a direct call of find_matching_person is
\* given, and the parsed record: BIRT is absent when there is no DATE value
ProbeNames == {<<"P","e","t","e"," ","/","G","i","b","s","o","n","/">>, <<"P","E","T","E","R"," ","/","g","i","b","s","o","n","/">>, <<"M","a","r","y"," ","A","n","n"," ","/","J","o","n","e","s","/">>, <<"M","a","r","y"," ","/","J","o","n","e","s","/">>, <<"G","i","b","s","o","n">>}
ProbeDates == {<<>>, <<"1"," ","J","A","N"," ","1","9","8","0">>, <<"3","1"," ","D","E","C"," ","1","9","8","0">>, <<"1","9","8","2">>, <<"1","9","8","5">>, <<"A","B","T"," ","1","9","8","0">>, <<"3","0"," ","F","E","B"," ","1","9","8","0">>}
ProbeRecord(name, date) ==
    IF date = <<>> THEN <<Entry(<<"N","A","M","E">>, "str", name)>>
    ELSE <<Entry(<<"N","A","M","E">>, "str", name), Entry(<<"B","I","R","T">>, "dict", <<Entry(<<"D","A","T","E">>, "str", date)>>)>>
\* the lists of the n stored people a call is given: all by pk, all reversed, each alone
Pools(n) ==
    {[i \in 1..n |-> i], [i \in 1..n |-> n + 1 - i]} \cup {<<p>> : p \in 1..n}

\* the date strings a direct call of _parse_date is given, built from a day, a month
\* abbreviation or number and a year, each with the number it denotes
ProbeDays == {[text |-> <<"1">>, no |-> 1], [text |-> <<"0","5">>, no |-> 5], [text |-> <<"1","5">>, no |-> 15],
              [text |-> <<"2","9">>, no |-> 29], [text |-> <<"3","0">>, no |-> 30], [text |-> <<"3","1">>, no |-> 31],
              [text |-> <<"0">>, no |-> 0], [text |-> <<"3","2">>, no |-> 32]}
ProbeMonths == {[text |-> <<"J","A","N">>, no |-> 1], [text |-> <<"f","e","b">>, no |-> 2],
                [text |-> <<"A","p","r">>, no |-> 4], [text |-> <<"D","E","C">>, no |-> 12]}
ProbeMonthNumbers == {[text |-> <<"0","3">>, no |-> 3], [text |-> <<"2">>, no |-> 2], [text |-> <<"0","4">>, no |-> 4],
                      [text |-> <<"1","2">>, no |-> 12], [text |-> <<"1","3">>, no |-> 13], [text |-> <<"0">>, no |-> 0]}
ProbeYears == {[text |-> <<"1","9","8","0">>, no |-> 1980], [text |-> <<"1","9","0","0">>, no |-> 1900],
               [text |-> <<"2","0","0","0">>, no |-> 2000], [text |-> <<"0","0","0","0">>, no |-> 0]}
Blanks == {<<" ">>, <<" "," ">>}
Tails == {<<>>, <<"0">>, <<" ","o","r"," ","s","o">>}
DMYText(day, blank, month, year, tail) == day \o blank \o month \o blank \o year \o tail
MDYText(month, day, year, tail) == month \o <<"/">> \o day \o <<"/">> \o year \o tail
\* strings that none of the three patterns matches at their start
NoDateTexts == {<<>>, <<"i","n","v","a","l","i","d"," ","d","a","t","e">>, <<"A","B","T"," ","1","9","8","0">>, <<"1","5"," ","M","A","R","C","H"," ","1","9","8","0">>, <<"J","A","N"," ","1","9","8","0">>, <<"1","9","8">>,
                <<"3","/","1","5","/","8","0">>, <<"1","5","-","M","A","R","-","1","9","8","0">>, <<" ","1","9","8","0">>, <<"1","5","M","A","R","1","9","8","0">>}
DateTexts ==
    {DMYText(d.text, b, m.text, y.text, t) :
        d \in ProbeDays, b \in Blanks, m \in ProbeMonths, y \in ProbeYears, t \in Tails}
    \cup {y.text \o t : y \in ProbeYears, t \in Tails}
    \cup {MDYText(m.text, d.text, y.text, t) :
        m \in ProbeMonthNumbers, d \in ProbeDays, y \in ProbeYears, t \in Tails}
    \cup NoDateTexts

\* the lines a file read line by line may hold: a record, two event tags, a field that is
\* no event, sub-tags of levels 2 and 3, a line whose level is no integer, a trailer
ProbeLines == {<<"0"," ","@","I","1","@"," ","I","N","D","I">>, <<"1"," ","B","I","R","T">>, <<"1"," ","D","E","A","T">>, <<"1"," ","N","A","M","E"," ","A","l">>, <<"2"," ","D","A","T","E"," ","1","9","8","0">>, <<"2"," ","D","A","T","E"," ","1","9","9","0">>,
               <<"3"," ","P","L","A","C","_","T","O"," ","U","S">>, <<"x"," ","B","I","R","T">>, <<"0"," ","T","R","L","R">>}

\* the lines of a file of records read line by line: an individual and a family record,
\* a trailer, list tags with two values, a plain tag with two values, an event and its date
RecordLines == {<<"0"," ","@","I","1","@"," ","I","N","D","I">>, <<"0"," ","@","F","1","@"," ","F","A","M">>, <<"0"," ","T","R","L","R">>, <<"1"," ","C","H","I","L"," ","@","I","1","@">>, <<"1"," ","C","H","I","L"," ","@","I","2","@">>,
                <<"1"," ","H","U","S","B"," ","@","I","2","@">>, <<"1"," ","N","A","M","E"," ","A","l">>, <<"1"," ","N","A","M","E"," ","B","o">>, <<"1"," ","B","I","R","T">>, <<"2"," ","D","A","T","E"," ","1","9","8","0">>}

\* the name strings a direct call of _parse_name is given: given names and a surname
\* between slashes, words separated by blanks, and strings with a slash but fewer than
\* two segments, or of blanks only
ProbeGivens == {<<"J","o","h","n">>, <<"J","o","h","n"," ","M","i","c","h","a","e","l">>, <<"J","o","h","n"," ","M","i","c","h","a","e","l"," ","D","a","v","i","d">>, <<" ","J","o","h","n"," ">>, <<>>}
ProbeSurnames == {<<"S","m","i","t","h">>, <<"v","a","n"," ","D","y","k","e">>, <<>>}
ProbeSuffixes == {<<>>, <<" ","J","r">>}
ProbeWords == {<<"J","o","h","n">>, <<"A","n","n">>, <<"S","m","i","t","h">>}
SlashText(given, surname, suffix) ==
    (IF given = <<>> THEN <<>> ELSE given \o <<" ">>) \o <<"/">> \o surname \o <<"/">> \o suffix
NameTexts ==
    {SlashText(g, s, x) : g \in ProbeGivens, s \in ProbeSurnames, x \in ProbeSuffixes}
    \cup {<<>>, <<" ">>, <<"/">>, <<"J","o","h","n","/","S","m","i","t","h">>, <<"J","o","h","n"," "," ","S","m","i","t","h">>}
    \cup {join(ws) : ws \in UNION {[1..n -> ProbeWords] : n \in 1..4}}
\* ---------------------------------------------------------------- state
VARIABLES
    db,               \* the store
    phase,            \* "idle", "individuals", "families", "summary", "done", "failed"
    file,             \* the file of the run, 0 for a path that does not exist
    pretend, strict,  \* the run's flags
    pos,              \* index of the next record of the phase
    existing_people,  \* the candidate pool, pks in list order
    person_map,       \* GEDCOM id -> person
    mem,              \* is_living of the run's in-memory Person objects, by pk
    stats,            \* the run's counters and error list
    runs, saves,      \* how many imports were started, how many direct saves made
    raised,           \* the exception of the last direct save, "" for none
    last_run,         \* file and flags of the import that ended last, with nothing saved since
    start,            \* the store and last_run when the current import started
    log,              \* the steps the run has taken: the parse, each record handed to
                      \* _import_individual or _import_family, the summary
    call, returned    \* the last direct call of the matcher since the last import: its
                      \* arguments and what it returned

vars == <<db, phase, file, pretend, strict, pos, existing_people,
          person_map, mem, stats, runs, saves, raised, last_run, start, log, call, returned>>
run_vars == <<file, pretend, strict, pos, existing_people,
              person_map, mem, stats, runs, start, log>>

\* parser.parse() of the run's file: the records by xref, in file order
gedcom_data == IF file = 0 THEN ParserInit ELSE Parsed[file]
individuals == gedcom_data.individuals
families == gedcom_data.families

NoRun == [file |-> 0, pretend |-> TRUE, strict |-> FALSE]
NoCall == [op |-> "none"]
Pending == [done |-> FALSE]
Returned(value) == [done |-> TRUE, exc |-> "", value |-> value]
Threw(exc) == [done |-> TRUE, exc |-> exc]
LogEntry(step, id) == [step |-> step, id |-> id]
Resting == {"idle", "done", "failed"}

Init ==
    /\ db = EmptyStore
    /\ phase = "idle"
    /\ file = 0 /\ pretend = TRUE /\ strict = FALSE
    /\ pos = 1
    /\ existing_people = <<>> /\ person_map = <<>> /\ mem = <<>>
    /\ stats = NewStats
    /\ runs = 0 /\ saves = 0 /\ raised = ""
    /\ last_run = NoRun
    /\ start = [db |-> EmptyStore, last_run |-> NoRun]
    /\ log = <<>>
    /\ call = NoCall /\ returned = Pending

\* the loop over the individuals entered only while more than one record is left
PhaseFrom_LastSkipped(ph, n_individuals, n_families) ==
    IF ph = "individuals" /\ n_individuals > 1 THEN "individuals"
    ELSE IF ph \in {"individuals", "families"} /\ n_families > 0 THEN "families"
    ELSE "summary"

\* the phase that follows, given how many records each loop still has
PhaseFrom(ph, n_individuals, n_families) ==
    IF ph = "individuals" /\ n_individuals > 0 THEN "individuals"
    ELSE IF ph \in {"individuals", "families"} /\ n_families > 0 THEN "families"
    ELSE "summary"

\* ---- import_gedcom, lines 135-153: existence check, parse, load the pool
FirstPhase(records) == PhaseFrom("individuals", Len(records.individuals), Len(records.families))
StartImport(f, p, s) ==
    /\ phase \in Resting
    /\ runs < MaxRuns
    /\ phase' = FirstPhase(Parsed[f])
    /\ file' = f /\ pretend' = p /\ strict' = s
    /\ pos' = 1
    /\ existing_people' = [i \in Rows(db.persons) |-> i]
    /\ mem' = [i \in Rows(db.persons) |-> db.persons[i].is_living]
    /\ person_map' = <<>>
    /\ stats' = NewStats
    /\ runs' = runs + 1
    /\ start' = [db |-> db, last_run |-> last_run]
    /\ log' = <<LogEntry("parse", <<>>)>>
    /\ call' = NoCall /\ returned' = Pending
    /\ UNCHANGED <<db, saves, raised, last_run>>

\* the existence check left out: the run goes on to the summary of an empty file
MissingFile_Summarised(p, s) ==
    /\ phase \in Resting
    /\ runs < MaxRuns
    /\ phase' = "summary"
    /\ file' = 0 /\ pretend' = p /\ strict' = s
    /\ pos' = 1
    /\ existing_people' = [i \in Rows(db.persons) |-> i]
    /\ mem' = [i \in Rows(db.persons) |-> db.persons[i].is_living]
    /\ person_map' = <<>>
    /\ stats' = NewStats
    /\ runs' = runs + 1
    /\ start' = [db |-> db, last_run |-> last_run]
    /\ log' = <<LogEntry("parse", <<>>)>>
    /\ call' = NoCall /\ returned' = Pending
    /\ UNCHANGED <<db, saves, raised, last_run>>

\* ---- import_gedcom, lines 135-136: the path does not exist
MissingFile(p, s) ==
    /\ phase \in Resting
    /\ runs < MaxRuns
    /\ phase' = "failed"
    /\ file' = 0 /\ pretend' = p /\ strict' = s
    /\ pos' = 1
    /\ existing_people' = <<>> /\ person_map' = <<>> /\ mem' = <<>>
    /\ stats' = NewStats
    /\ runs' = runs + 1
    /\ start' = [db |-> db, last_run |-> last_run]
    /\ last_run' = NoRun
    /\ log' = <<>>
    /\ call' = NoCall /\ returned' = Pending
    /\ UNCHANGED <<db, saves, raised>>

ErrorEntry(kind, id, exc) == [record |-> kind, id |-> id, exc |-> exc]
InPool(pool, person) == \E k \in 1..Len(pool) : pool[k] = person

\* the except branch left out: the exception is swallowed and nothing is recorded
IndividualResult_Silent(gedcom_id, c) ==
    /\ db' = c.db
    /\ mem' = c.mem
    /\ stats' = c.stats
    /\ IF c.exc # ""
       THEN UNCHANGED <<person_map, existing_people>>
       ELSE /\ person_map' = IF c.person # 0
                             THEN Append(person_map, [id |-> gedcom_id, person |-> c.person])
                             ELSE person_map
            /\ existing_people' = IF c.person # 0 /\ ~pretend /\ ~InPool(existing_people, c.person)
                                  THEN Append(existing_people, c.person)
                                  ELSE existing_people

\* lines 156-165: what the iteration keeps of the outcome c of _import_individual
IndividualResult(gedcom_id, c) ==
    /\ db' = c.db
    /\ mem' = c.mem
    /\ IF c.exc # ""
       THEN /\ stats' = [c.stats EXCEPT !.errors = Append(@, ErrorEntry("individual", gedcom_id, c.exc))]
            /\ UNCHANGED <<person_map, existing_people>>
       ELSE /\ stats' = c.stats
            /\ person_map' = IF c.person # 0
                             THEN Append(person_map, [id |-> gedcom_id, person |-> c.person])
                             ELSE person_map
            /\ existing_people' = IF c.person # 0 /\ ~pretend /\ ~InPool(existing_people, c.person)
                                  THEN Append(existing_people, c.person)
                                  ELSE existing_people

IndividualsLoop(records) ==
    /\ IndividualResult(records.individuals[pos].k,
                          import_individual(Context(db, stats, mem), records.individuals[pos].v,
                                            existing_people, pretend, strict, 0 - pos))
    /\ log' = Append(log, LogEntry("individual", records.individuals[pos].k))
    /\ pos' = IF pos < Len(records.individuals) THEN pos + 1 ELSE 1
    /\ phase' = PhaseFrom("individuals", Len(records.individuals) - pos, Len(records.families))

\* ---- import_gedcom, lines 154-165: one iteration of the loop over the individuals
ImportIndividual ==
    /\ phase = "individuals"
    /\ IndividualsLoop(gedcom_data)
    /\ UNCHANGED <<file, pretend, strict, runs, saves, raised, last_run, start, call, returned>>

\* lines 169-175: what the iteration keeps of the outcome c of _import_family
FamilyResult(family_id, c) ==
    /\ db' = c.db
    /\ mem' = c.mem
    /\ stats' = IF c.exc # ""
                THEN [c.stats EXCEPT !.errors = Append(@, ErrorEntry("family", family_id, c.exc))]
                ELSE c.stats

FamiliesLoop(records) ==
    /\ FamilyResult(records.families[pos].k,
                      import_family(Context(db, stats, mem), records.families[pos].v,
                                    person_map, pretend))
    /\ log' = Append(log, LogEntry("family", records.families[pos].k))
    /\ pos' = IF pos < Len(records.families) THEN pos + 1 ELSE 1
    /\ phase' = PhaseFrom("families", 0, Len(records.families) - pos)

\* ---- import_gedcom, lines 167-175: one iteration of the loop over the families
ImportFamily ==
    /\ phase = "families"
    /\ FamiliesLoop(gedcom_data)
    /\ UNCHANGED <<file, pretend, strict, existing_people, person_map,
                   runs, saves, raised, last_run, start, call, returned>>

\* ---- import_gedcom, line 178: _print_summary ends the run
PrintSummary ==
    /\ phase = "summary"
    /\ phase' = "done"
    /\ last_run' = [file |-> file, pretend |-> pretend, strict |-> strict]
    /\ log' = Append(log, LogEntry("summary", <<>>))
    /\ UNCHANGED <<db, saves, raised, call, returned>>
    /\ UNCHANGED <<file, pretend, strict, pos, existing_people, person_map, mem, stats, runs, start>>

\* ---- MarriageEvent / DivorceEvent.objects.create(...) by any caller of the models:
\* the insert, refused by the table's unique constraint, then the save hook; clean() is
\* not part of save(), so nothing restricts the two persons
CreateCoupleEvent(kind, person, other_person, date, location, comment) ==
    /\ phase \in Resting
    /\ saves < MaxSaves
    /\ person \in Rows(db.persons) /\ other_person \in Rows(db.persons)
    /\ LET row == CoupleRow(kind, person, other_person, date, location, comment)
       IN  IF UniqueViolation(db[kind], row, 0)
           THEN db' = db /\ raised' = "IntegrityError"
           ELSE LET r == couple_create(db, kind, row)
                IN  db' = r.db /\ raised' = r.exc
    /\ saves' = saves + 1
    /\ last_run' = NoRun
    /\ UNCHANGED <<phase, call, returned>>
    /\ UNCHANGED run_vars

\* ---- save() of a stored marriage or divorce whose date, location and comment were set
UpdateCoupleEvent(kind, i, date, location, comment) ==
    /\ phase \in Resting
    /\ saves < MaxSaves
    /\ i \in Rows(db[kind])
    /\ LET row == [db[kind][i] EXCEPT !.date = date, !.location = location, !.comment = comment]
       IN  IF UniqueViolation(db[kind], row, i)
           THEN db' = db /\ raised' = "IntegrityError"
           ELSE LET r == event_save([db EXCEPT ![kind][i] = row], kind, i, FALSE, FALSE)
                IN  db' = r.db /\ raised' = r.exc
    /\ saves' = saves + 1
    /\ last_run' = NoRun
    /\ UNCHANGED <<phase, call, returned>>
    /\ UNCHANGED run_vars

\* ---- DeathEvent.objects.create(person=..., date=..., cause=...) by any caller of the
\* models: the insert, refused by unique_death_per_person, then DeathEvent.save with the
\* person as the caller loaded it
CreateDeathEvent(person, date, cause) ==
    /\ phase \in Resting
    /\ saves < MaxSaves
    /\ person \in Rows(db.persons)
    /\ IF HasDeath(db, person)
       THEN db' = db /\ raised' = "IntegrityError"
       ELSE /\ db' = DeathSave(db, [person |-> person, date |-> date, location |-> <<>>,
                                    cause |-> cause],
                               db.persons[person].is_living).db
            /\ raised' = ""
    /\ saves' = saves + 1
    /\ last_run' = NoRun
    /\ UNCHANGED <<phase, call, returned>>
    /\ UNCHANGED run_vars

\* ---- Person.save() of a stored person whose is_living the caller has set
SavePerson(person, is_living) ==
    /\ phase \in Resting
    /\ saves < MaxSaves
    /\ person \in Rows(db.persons)
    /\ db' = PersonSave(db, person, "is_living", is_living, is_living).db
    /\ raised' = ""
    /\ saves' = saves + 1
    /\ last_run' = NoRun
    /\ UNCHANGED <<phase, call, returned>>
    /\ UNCHANGED run_vars

\* ---- PersonName.save() of a stored link whose name_type the caller has set
SaveNameType(i, name_type) ==
    /\ phase \in Resting
    /\ saves < MaxSaves
    /\ i \in Rows(db.person_names)
    /\ db' = [db EXCEPT !.person_names[i].name_type = name_type]
    /\ raised' = ""
    /\ saves' = saves + 1
    /\ last_run' = NoRun
    /\ UNCHANGED <<phase, call, returned>>
    /\ UNCHANGED run_vars

\* ---- PersonMatcher._names_match(first1, middle1, last1, first2, middle2, last2, strict)
NamesMatch(first1, middle1, last1, first2, middle2, last2, s) ==
    /\ phase \in Resting
    /\ call = NoCall
    /\ call' = [op |-> "names_match", first1 |-> first1, middle1 |-> middle1, last1 |-> last1,
                first2 |-> first2, middle2 |-> middle2, last2 |-> last2, strict |-> s]
    /\ returned' = Returned(names_match(first1, middle1, last1, first2, middle2, last2, s))
    /\ UNCHANGED <<db, phase, saves, raised, last_run>>
    /\ UNCHANGED run_vars

\* ---- PersonMatcher.find_matching_person(gedcom_person, existing_people, strict) on a
\* list of the stored people; the value returned is the person, 0 for None, or the
\* exception
FindMatchingPerson(gedcom_person, pool, s) ==
    /\ phase \in Resting
    /\ call = NoCall
    /\ call' = [op |-> "find_matching_person", gedcom_person |-> gedcom_person,
                existing_people |-> pool, strict |-> s]
    /\ returned' = IF find_matching_person_raises(gedcom_person, pool)
                   THEN Threw("ValueError")
                   ELSE Returned(find_matching_person(db, gedcom_person, pool, s))
    /\ UNCHANGED <<db, phase, saves, raised, last_run>>
    /\ UNCHANGED run_vars

CoupleKinds == {"marriages", "divorces"}

\* the import command, with any flags
Next ==
    \/ \E f \in FileIds, p \in BOOLEAN, s \in BOOLEAN : StartImport(f, p, s)
    \/ \E p \in BOOLEAN, s \in BOOLEAN : MissingFile(p, s)
    \/ ImportIndividual
    \/ ImportFamily
    \/ PrintSummary

Spec == Init /\ [][Next]_vars

\* real-mode imports and, between them, couple events created and saved
NextSaves ==
    \/ \E f \in FileIds, s \in BOOLEAN : StartImport(f, FALSE, s)
    \/ ImportIndividual
    \/ ImportFamily
    \/ PrintSummary
    \/ \E kind \in CoupleKinds, a \in Rows(db.persons), b \in Rows(db.persons),
          d \in SaveDates, l \in SaveTexts, m \in SaveTexts :
            CreateCoupleEvent(kind, a, b, d, l, m)
    \/ \E kind \in CoupleKinds, i \in 1..(Len(db.marriages) + Len(db.divorces)),
          d \in SaveDates, l \in SaveTexts, m \in SaveTexts :
            UpdateCoupleEvent(kind, i, d, l, m)

SpecSaves == Init /\ [][NextSaves]_vars

\* real-mode imports and, between them, a death event created, a person or a name link saved
NextEdits ==
    \/ \E f \in FileIds, s \in BOOLEAN : StartImport(f, FALSE, s)
    \/ ImportIndividual
    \/ ImportFamily
    \/ PrintSummary
    \/ \E p \in Rows(db.persons), d \in SaveDates : CreateDeathEvent(p, d, <<"f","l","u">>)
    \/ \E p \in Rows(db.persons), l \in BOOLEAN : SavePerson(p, l)
    \/ \E i \in Rows(db.person_names), t \in NameTypes : SaveNameType(i, t)

SpecEdits == Init /\ [][NextEdits]_vars

\* direct calls of _names_match
NextNames ==
    \E f1 \in ProbeFirst, m1 \in ProbeMiddle, l1 \in ProbeLast,
       f2 \in ProbeFirst, m2 \in ProbeMiddle, l2 \in ProbeLast, s \in BOOLEAN :
        NamesMatch(f1, m1, l1, f2, m2, l2, s)

SpecNames == Init /\ [][NextNames]_vars

\* real-mode imports and, after them, a call of find_matching_person on the stored people
NextMatcher ==
    \/ \E f \in FileIds, s \in BOOLEAN : StartImport(f, FALSE, s)
    \/ ImportIndividual
    \/ ImportFamily
    \/ PrintSummary
    \/ \E name \in ProbeNames, date \in ProbeDates, pool \in Pools(Len(db.persons)), s \in BOOLEAN :
        FindMatchingPerson(ProbeRecord(name, date), pool, s)

SpecMatcher == Init /\ [][NextMatcher]_vars


\* ---- PersonMatcher._parse_date(date_str): the date returned, None included, or the
\* ValueError of datetime.date
ParseDate(date_str) ==
    /\ phase \in Resting
    /\ call = NoCall
    /\ call' = [op |-> "parse_date", date_str |-> date_str]
    /\ returned' = IF parse_date_raises(date_str) THEN Threw("ValueError")
                   ELSE Returned(parse_date(date_str))
    /\ UNCHANGED <<db, phase, saves, raised, last_run>>
    /\ UNCHANGED run_vars

\* direct calls of _parse_date
NextDates == \E date_str \in DateTexts : ParseDate(date_str)

SpecDates == Init /\ [][NextDates]_vars

\* ---- GEDCOMParser(file_path).parse(), lines 26-28: the parser as constructed, the file opened
OpenFile ==
    /\ phase \in Resting
    /\ call = NoCall
    /\ call' = [op |-> "parse", lines |-> <<>>, parser |-> ParserInit]
    /\ returned' = Pending
    /\ UNCHANGED <<db, phase, saves, raised, last_run>>
    /\ UNCHANGED run_vars

\* ---- parse, lines 29-37: one iteration of the loop over the file, on the line read
ReadLine(line) ==
    /\ call.op = "parse" /\ ~returned.done
    /\ Len(call.lines) < MaxLines
    /\ call' = [call EXCEPT !.lines = Append(@, line), !.parser = parse_step(@, line)]
    /\ UNCHANGED <<db, phase, saves, raised, last_run, returned>>
    /\ UNCHANGED run_vars

\* ---- parse, line 39: the file is exhausted, the two tables are returned
EndOfFile ==
    /\ call.op = "parse" /\ ~returned.done
    /\ returned' = Returned([individuals |-> call.parser.individuals,
                             families |-> call.parser.families])
    /\ UNCHANGED <<db, phase, saves, raised, last_run, call>>
    /\ UNCHANGED run_vars

\* the parser on a file read line by line
NextParser ==
    \/ OpenFile
    \/ \E line \in ProbeLines : ReadLine(line)
    \/ EndOfFile

SpecParser == Init /\ [][NextParser]_vars

\* the parser on a file of records read line by line
NextRecords ==
    \/ OpenFile
    \/ \E line \in RecordLines : ReadLine(line)
    \/ EndOfFile

SpecRecords == Init /\ [][NextRecords]_vars

\* ---- PersonMatcher._parse_name(name_str): the triple returned, or the IndexError of
\* parts[0]
ParseName(name_str) ==
    /\ phase \in Resting
    /\ call = NoCall
    /\ call' = [op |-> "parse_name", name_str |-> name_str]
    /\ returned' = IF parse_name_raises(name_str) THEN Threw("IndexError")
                   ELSE Returned(parse_name(name_str))
    /\ UNCHANGED <<db, phase, saves, raised, last_run>>
    /\ UNCHANGED run_vars

\* direct calls of _parse_name
NextParseName == \E name_str \in NameTexts : ParseName(name_str)

SpecParseName == Init /\ [][NextParseName]_vars

\* the second process started without loading the stored people
SecondStart_EmptyPool(records) ==
    /\ phase # "idle" /\ runs = 1 /\ file # 0 /\ ~pretend
    /\ call = NoCall
    /\ call' = [op |-> "import_gedcom",
                phase |-> FirstPhase(records),
                after |-> phase,
                pos |-> 1,
                existing_people |-> <<>>,
                mem |-> [i \in Rows(db.persons) |-> db.persons[i].is_living],
                person_map |-> <<>>,
                stats |-> NewStats,
                start |-> db]
    /\ returned' = Pending
    /\ UNCHANGED <<db, phase, saves, raised, last_run>>
    /\ UNCHANGED run_vars

\* ---- a second import_gedcom process on the same file with the same flags, in real
\* mode, started once the first has started: its own pool, xref map, counters and
\* in-memory persons, kept in `call`; the store is the one the first run writes
SecondStart(records) ==
    /\ phase # "idle" /\ runs = 1 /\ file # 0 /\ ~pretend
    /\ call = NoCall
    /\ call' = [op |-> "import_gedcom",
                phase |-> FirstPhase(records),
                after |-> phase,
                pos |-> 1,
                existing_people |-> [i \in Rows(db.persons) |-> i],
                mem |-> [i \in Rows(db.persons) |-> db.persons[i].is_living],
                person_map |-> <<>>,
                stats |-> NewStats,
                start |-> db]
    /\ returned' = Pending
    /\ UNCHANGED <<db, phase, saves, raised, last_run>>
    /\ UNCHANGED run_vars

StartSecondImport == SecondStart(gedcom_data)

\* lines 156-165 for the second process: what its iteration keeps of the outcome c
SecondIndividualResult(gedcom_id, c, next_phase, next_pos) ==
    /\ db' = c.db
    /\ call' = [call EXCEPT
            !.mem = c.mem,
            !.stats = IF c.exc # ""
                      THEN [c.stats EXCEPT !.errors = Append(@, ErrorEntry("individual", gedcom_id, c.exc))]
                      ELSE c.stats,
            !.person_map = IF c.exc = "" /\ c.person # 0
                           THEN Append(@, [id |-> gedcom_id, person |-> c.person])
                           ELSE @,
            !.existing_people = IF c.exc = "" /\ c.person # 0 /\ ~InPool(@, c.person)
                                THEN Append(@, c.person)
                                ELSE @,
            !.phase = next_phase,
            !.pos = next_pos]

SecondIndividualsLoop(records) ==
    SecondIndividualResult(records.individuals[call.pos].k,
                           import_individual(Context(db, call.stats, call.mem),
                                             records.individuals[call.pos].v,
                                             call.existing_people, FALSE, strict, 0 - call.pos),
                           PhaseFrom("individuals", Len(records.individuals) - call.pos,
                                     Len(records.families)),
                           IF call.pos < Len(records.individuals) THEN call.pos + 1 ELSE 1)

\* ---- lines 154-165 in the second process
SecondImportIndividual ==
    /\ call.op = "import_gedcom" /\ call.phase = "individuals"
    /\ SecondIndividualsLoop(gedcom_data)
    /\ UNCHANGED <<phase, saves, raised, last_run, returned>>
    /\ UNCHANGED run_vars

\* lines 169-175 for the second process
SecondFamilyResult(family_id, c, next_phase, next_pos) ==
    /\ db' = c.db
    /\ call' = [call EXCEPT
            !.mem = c.mem,
            !.stats = IF c.exc # ""
                      THEN [c.stats EXCEPT !.errors = Append(@, ErrorEntry("family", family_id, c.exc))]
                      ELSE c.stats,
            !.phase = next_phase,
            !.pos = next_pos]

SecondFamiliesLoop(records) ==
    SecondFamilyResult(records.families[call.pos].k,
                       import_family(Context(db, call.stats, call.mem), records.families[call.pos].v,
                                     call.person_map, FALSE),
                       PhaseFrom("families", 0, Len(records.families) - call.pos),
                       IF call.pos < Len(records.families) THEN call.pos + 1 ELSE 1)

\* ---- lines 167-175 in the second process
SecondImportFamily ==
    /\ call.op = "import_gedcom" /\ call.phase = "families"
    /\ SecondFamiliesLoop(gedcom_data)
    /\ UNCHANGED <<phase, saves, raised, last_run, returned>>
    /\ UNCHANGED run_vars

\* ---- line 178 in the second process: its summary, with its counters
SecondPrintSummary ==
    /\ call.op = "import_gedcom" /\ call.phase = "summary"
    /\ call' = [call EXCEPT !.phase = "done"]
    /\ returned' = Returned(call.stats)
    /\ UNCHANGED <<db, phase, saves, raised, last_run>>
    /\ UNCHANGED run_vars

\* two real-mode imports of one file on an empty store, their iterations interleaved in
\* every way, the second started at any moment from the start of the first to after
\* its end
NextTwoRuns ==
    \/ \E f \in FileIds, s \in BOOLEAN : runs = 0 /\ StartImport(f, FALSE, s)
    \/ ImportIndividual
    \/ ImportFamily
    \/ PrintSummary
    \/ StartSecondImport
    \/ SecondImportIndividual
    \/ SecondImportFamily
    \/ SecondPrintSummary

SpecTwoRuns == Init /\ [][NextTwoRuns]_vars

\* ---------------------------------------------------------------- CoupleEvent.save, step by step
\* One invocation of save() on a stored row: whether the row is new, the skip_symmetric
\* flag it was given, where it stands ("hook": super().save() has written the row;
\* "return": what is left is the end of the method), and the store to go back to when
\* the atomic block of the create() that made the row is left by an exception.
Frame(row, is_new, skip_symmetric, pc, rollback) ==
    [row |-> row, is_new |-> is_new, skip_symmetric |-> skip_symmetric, pc |-> pc,
     rollback |-> rollback]
Saving == call.op = "save" /\ ~returned.done
SaveCall(kind, row, is_new, written) ==
    [op |-> "save", kind |-> kind, row |-> row, is_new |-> is_new, written |-> written,
     stack |-> <<Frame(row, is_new, FALSE, "hook", written)>>, saved |-> <<row>>]
RefusedCall(kind) ==
    [op |-> "save", kind |-> kind, row |-> 0, is_new |-> TRUE, written |-> db,
     stack |-> <<>>, saved |-> <<>>]

\* the mirror's save given no skip flag
UpdateFrame_Unguarded(row, rollback) == Frame(row, FALSE, FALSE, "hook", rollback)

\* models.py line 277: symmetric_event.save(update_fields=[...], skip_symmetric=True)
UpdateFrame(row, rollback) == Frame(row, FALSE, TRUE, "return", rollback)
\* get_or_create's create(): the mirror is inserted by its own save(), with no flag
CreateFrame(row, rollback) == Frame(row, TRUE, FALSE, "hook", rollback)

\* ---- Model.objects.create(...) of a marriage or divorce: the insert by super().save()
CreateAndSave(kind, person, other_person, date, location, comment) ==
    /\ phase \in Resting /\ ~Saving
    /\ saves < MaxSaves
    /\ person \in Rows(db.persons) /\ other_person \in Rows(db.persons)
    /\ LET row == CoupleRow(kind, person, other_person, date, location, comment)
       IN  IF UniqueViolation(db[kind], row, 0)
           THEN /\ db' = db /\ raised' = "IntegrityError"
                /\ call' = RefusedCall(kind) /\ returned' = Threw("IntegrityError")
           ELSE /\ db' = [db EXCEPT ![kind] = Append(@, row)]
                /\ raised' = ""
                /\ call' = SaveCall(kind, Len(db[kind]) + 1, TRUE, db')
                /\ returned' = Pending
    /\ saves' = saves + 1
    /\ last_run' = NoRun
    /\ UNCHANGED phase
    /\ UNCHANGED run_vars

\* ---- save() of a stored marriage or divorce whose date, location and comment were
\* set: the update by super().save()
SetAndSave(kind, i, date, location, comment) ==
    /\ phase \in Resting /\ ~Saving
    /\ saves < MaxSaves
    /\ i \in Rows(db[kind])
    /\ LET row == [db[kind][i] EXCEPT !.date = date, !.location = location, !.comment = comment]
       IN  IF UniqueViolation(db[kind], row, i)
           THEN /\ db' = db /\ raised' = "IntegrityError"
                /\ call' = RefusedCall(kind) /\ returned' = Threw("IntegrityError")
           ELSE /\ db' = [db EXCEPT ![kind][i] = row]
                /\ raised' = ""
                /\ call' = SaveCall(kind, i, FALSE, db')
                /\ returned' = Pending
    /\ saves' = saves + 1
    /\ last_run' = NoRun
    /\ UNCHANGED phase
    /\ UNCHANGED run_vars

\* ---- CoupleEvent.save, lines 258-277, in the invocation on top of the stack: the
\* lookup of the mirror, then its creation, its update, or nothing
HookOf(kind, stack, f, self, found) ==
    IF f.skip_symmetric
    THEN /\ db' = db
         /\ call' = [call EXCEPT !.stack[Len(stack)].pc = "return"]
         /\ UNCHANGED <<returned, raised>>
    ELSE IF Cardinality(found) > 1
    THEN /\ db' = IF Len(stack) > 1 THEN f.rollback ELSE db
         /\ call' = [call EXCEPT !.stack = <<>>]
         /\ returned' = Threw("MultipleObjectsReturned")
         /\ raised' = "MultipleObjectsReturned"
    ELSE IF found = {}
    THEN /\ db' = [db EXCEPT ![kind] = Append(@, MirrorOf(kind, self))]
         /\ call' = [call EXCEPT
                        !.stack = Append([stack EXCEPT ![Len(stack)].pc = "return"],
                                         CreateFrame(Len(db[kind]) + 1, db)),
                        !.saved = Append(@, Len(db[kind]) + 1)]
         /\ UNCHANGED <<returned, raised>>
    ELSE IF ~f.is_new
    THEN LET j == CHOOSE j \in found : TRUE
         IN  /\ db' = [db EXCEPT ![kind][j].location = self.location,
                                 ![kind][j].comment = self.comment,
                                 ![kind][j].date = self.date]
             /\ call' = [call EXCEPT
                            !.stack = Append([stack EXCEPT ![Len(stack)].pc = "return"],
                                             UpdateFrame(j, db)),
                            !.saved = Append(@, j)]
             /\ UNCHANGED <<returned, raised>>
    ELSE /\ db' = db
         /\ call' = [call EXCEPT !.stack[Len(stack)].pc = "return"]
         /\ UNCHANGED <<returned, raised>>

LookupMirror ==
    /\ Saving /\ call.stack # <<>>
    /\ call.stack[Len(call.stack)].pc = "hook"
    /\ LET f == call.stack[Len(call.stack)]
           self == db[call.kind][f.row]
       IN  HookOf(call.kind, call.stack, f, self,
                  CoupleMatches(db[call.kind], self.other_person, self.person, self.date))
    /\ UNCHANGED <<phase, saves, last_run>>
    /\ UNCHANGED run_vars

\* ---- the end of save(): DivorceEvent.save, lines 302-312, closes the couple's
\* marriages; the invocation returns to its caller
ReturnFromSave ==
    /\ Saving /\ call.stack # <<>>
    /\ call.stack[Len(call.stack)].pc = "return"
    /\ LET self == db[call.kind][call.stack[Len(call.stack)].row]
       IN  db' = IF call.kind = "divorces"
                 THEN EndMarriages(db, self.person, self.other_person) ELSE db
    /\ call' = [call EXCEPT !.stack = SubSeq(@, 1, Len(@) - 1)]
    /\ returned' = IF Len(call.stack) = 1 THEN Returned(TRUE) ELSE returned
    /\ UNCHANGED <<phase, saves, raised, last_run>>
    /\ UNCHANGED run_vars

\* one real-mode import, then couple events created and saved, each save() run one
\* invocation at a time
NextHook ==
    \/ \E f \in FileIds, s \in BOOLEAN : runs = 0 /\ StartImport(f, FALSE, s)
    \/ ImportIndividual
    \/ ImportFamily
    \/ PrintSummary
    \/ \E kind \in CoupleKinds, a \in Rows(db.persons), b \in Rows(db.persons),
          d \in SaveDates, l \in SaveTexts, m \in SaveTexts :
            CreateAndSave(kind, a, b, d, l, m)
    \/ \E kind \in CoupleKinds, i \in 1..(Len(db.marriages) + Len(db.divorces)),
          d \in SaveDates, l \in SaveTexts, m \in SaveTexts :
            SetAndSave(kind, i, d, l, m)
    \/ LookupMirror
    \/ ReturnFromSave

\* a save() that was entered runs on: Python executes the method to its end
SpecHookFair == Init /\ [][NextHook]_vars /\ WF_vars(LookupMirror) /\ WF_vars(ReturnFromSave)

\* ---- import_gedcom in real mode on the file and with the strict flag of the pretend
\* run that has just ended, against the store that run has left: its pool, xref map and
\* counters are kept in `call`
RealStart(records) ==
    /\ phase = "done" /\ pretend /\ file # 0
    /\ call = NoCall
    /\ call' = [op |-> "import_gedcom",
                phase |-> FirstPhase(records),
                after |-> phase,
                pos |-> 1,
                existing_people |-> [i \in Rows(db.persons) |-> i],
                mem |-> [i \in Rows(db.persons) |-> db.persons[i].is_living],
                person_map |-> <<>>,
                stats |-> NewStats,
                start |-> db]
    /\ returned' = Pending
    /\ UNCHANGED <<db, phase, saves, raised, last_run>>
    /\ UNCHANGED run_vars

StartRealImport == RealStart(gedcom_data)

\* a store filled by a real-mode import or left empty, a pretend run of any file on it,
\* then a real-mode run of the same file with the same flag
NextDryRun ==
    \/ \E f \in FileIds, s \in BOOLEAN : runs = 0 /\ StartImport(f, FALSE, s)
    \/ \E f \in FileIds, s \in BOOLEAN : call = NoCall /\ StartImport(f, TRUE, s)
    \/ ImportIndividual
    \/ ImportFamily
    \/ PrintSummary
    \/ StartRealImport
    \/ SecondImportIndividual
    \/ SecondImportFamily
    \/ SecondPrintSummary

SpecDryRun == Init /\ [][NextDryRun]_vars
\* ---------------------------------------------------------------- properties
Tables == {"persons", "names", "person_names", "parent_child", "births", "deaths",
           "immigrations", "citizenships", "marriages", "divorces"}

\* the run that just ended is a real-mode import of the file, with the flags, of the
\* real-mode import that ended right before it started
SecondRunDone ==
    /\ phase = "done"
    /\ ~pretend
    /\ start.last_run = [file |-> file, pretend |-> FALSE, strict |-> strict]

\* the spouses of family k of the run's file, as the xref map resolves them (0: unresolved)
HusbandOf(k) == MapGet(person_map, FirstOf(families[k].v.data, <<"H","U","S","B">>))
WifeOf(k) == MapGet(person_map, FirstOf(families[k].v.data, <<"W","I","F","E">>))
\* the persons the CHIL xrefs of family k resolve to
ChildrenOf(k) ==
    {MapGet(person_map, ListField(families[k].v.data, <<"C","H","I","L">>)[n]) :
        n \in 1..Len(ListField(families[k].v.data, <<"C","H","I","L">>))} \ {0}
\* the parsed DATE and the PLAC of the family's MARR or DIV
CoupleTag(kind) == IF kind = "marriages" THEN <<"M","A","R","R">> ELSE <<"D","I","V">>
CoupleDateText(k, kind) == SubField(EventData(families[k].v.data, CoupleTag(kind)), <<"D","A","T","E">>)
CoupleDate(k, kind) ==
    IF parse_date_raises(CoupleDateText(k, kind)) THEN None ELSE parse_date(CoupleDateText(k, kind))
CouplePlace(k, kind) == SubField(EventData(families[k].v.data, CoupleTag(kind)), <<"P","L","A","C">>)
\* family k of the current run has been imported
FamilyImported(k) == phase \in {"summary", "done"} \/ (phase = "families" /\ pos > k)
\* rows of a couple-event table between the two persons, in either direction
Between(tbl, a, b) == CouplePair(tbl, a, b) \cup CouplePair(tbl, b, a)

\* C1: when a real-mode import of a file ends right after a real-mode import of the same
\* file, every table holds the same rows as when the second run started: the second run
\* added no Person, Name, PersonName, event or ParentChildRelationship row.
C1_SecondImportAddsNoRows ==
    SecondRunDone => \A t \in Tables : Len(db[t]) = Len(start.db[t])

\* C2: the second of two consecutive real-mode imports of one file reports every created
\* and linked counter as 0 and individuals_updated as the number of individuals of the file.
C2_SecondRunCounters ==
    SecondRunDone =>
        /\ stats.individuals_created = 0
        /\ stats.names_created = 0
        /\ stats.names_linked = 0
        /\ stats.events_created = 0
        /\ stats.relationships_created = 0
        /\ stats.individuals_updated = Len(individuals)

\* C3: from the start of a pretend run to its end, whatever the file and the store it
\* started on, the store is the store the run started on.
C3_PretendWritesNothing ==
    (pretend /\ runs > 0) => db = start.db

\* a pretend run over a store that already holds persons has matched some, would have
\* created others, and has counted events and relationships
C3_PretendRunCounted ==
    /\ pretend /\ phase = "done"
    /\ start.db.persons # <<>>
    /\ stats.individuals_updated > 0 /\ stats.individuals_created > 0
    /\ stats.events_created > 0 /\ stats.relationships_created > 0
    /\ \E i \in Rows(individuals) : StrField(individuals[i].v.data, <<"S","E","X">>) # <<>>

\* C4: every marriage and every divorce row (A, B, date) has a row (B, A, date) of its
\* kind with the same location and comment.
C4_MirrorInvariant ==
    \A kind \in CoupleKinds : \A i \in Rows(db[kind]) :
        \E j \in Rows(db[kind]) :
            /\ db[kind][j].person = db[kind][i].other_person
            /\ db[kind][j].other_person = db[kind][i].person
            /\ db[kind][j].date = db[kind][i].date
            /\ db[kind][j].location = db[kind][i].location
            /\ db[kind][j].comment = db[kind][i].comment

\* the pairs (person, other_person) of the divorces a step saves: the rows it inserts or
\* changes, and the stored row saved again as it was
SavedDivorcePairs ==
    {<<db'.divorces[i].person, db'.divorces[i].other_person>> :
        i \in {j \in Rows(db'.divorces) : j > Len(db.divorces) \/ db'.divorces[j] # db.divorces[j]}}
    \cup
    {<<db.divorces[i].person, db.divorces[i].other_person>> :
        i \in {j \in Rows(db.divorces) :
                 \E d \in SaveDates, l \in SaveTexts, m \in SaveTexts :
                     UpdateCoupleEvent("divorces", j, d, l, m)}}

\* C5: a step in which a divorce between A and B is saved (and the save returns) leaves
\* every marriage between A and B, in either direction, ended, and changes the ended
\* flag of no marriage between two other persons.
C5_DivorceEndsMarriages ==
    [][(saves' = saves \/ raised' = "") =>
        /\ \A pair \in SavedDivorcePairs :
              \A m \in Between(db'.marriages, pair[1], pair[2]) : db'.marriages[m].ended
        /\ \A m \in Rows(db.marriages) :
              (\A pair \in SavedDivorcePairs : m \notin Between(db.marriages, pair[1], pair[2]))
                  => db'.marriages[m].ended = db.marriages[m].ended
      ]_vars

\* a divorce saved outside the import has ended the couple's open, undated marriage
C5_DivorceSavedOnOpenMarriage ==
    /\ saves = 1 /\ raised = ""
    /\ \E d \in Rows(db.divorces) :
          /\ db.divorces[d].comment = <<"L","A">>
          /\ \E m \in Between(db.marriages, db.divorces[d].person, db.divorces[d].other_person) :
                db.marriages[m].date = None /\ db.marriages[m].ended

\* C6: once a real-mode run has imported a family with a dated MARR and a dated DIV whose
\* spouses both resolve, the marriage rows of that date between the two are ended.
C6_DivorcedMarriageEnded ==
    (~pretend /\ file # 0) =>
        \A k \in Rows(families) :
            (/\ FamilyImported(k)
             /\ HusbandOf(k) # 0 /\ WifeOf(k) # 0
             /\ CoupleDate(k, "marriages") # None /\ CoupleDate(k, "divorces") # None)
            => \A m \in Between(db.marriages, HusbandOf(k), WifeOf(k)) :
                  db.marriages[m].date = CoupleDate(k, "marriages") => db.marriages[m].ended

IsEvent(row, person, other_person, date, location) ==
    /\ row.person = person /\ row.other_person = other_person
    /\ row.date = date /\ row.location = location

\* what the import of family `pos` has to add to a couple-event table when the family's
\* event of that kind is dated: the two rows of the date when neither direction holds
\* one, nothing when either does
DatedRowsAdded(kind) ==
    LET h == HusbandOf(pos)
        w == WifeOf(pos)
        d == CoupleDate(pos, kind)
        loc == CouplePlace(pos, kind)
        new == {i \in Rows(db'[kind]) : i > Len(db[kind])}
    IN  IF CoupleMatches(db[kind], h, w, d) = {} /\ CoupleMatches(db[kind], w, h, d) = {}
        THEN /\ Cardinality(new) = 2
             /\ \E i \in new : IsEvent(db'[kind][i], h, w, d, loc)
             /\ \E i \in new : IsEvent(db'[kind][i], w, h, d, loc)
        ELSE new = {}
\* the events the import of family `pos` has to count for the kind
DatedEventsCounted(kind) ==
    IF /\ CoupleDate(pos, kind) # None
       /\ CoupleMatches(db[kind], HusbandOf(pos), WifeOf(pos), CoupleDate(pos, kind)) = {}
       /\ CoupleMatches(db[kind], WifeOf(pos), HusbandOf(pos), CoupleDate(pos, kind)) = {}
    THEN 1 ELSE 0
\* the family's event of the kind is dated, or absent
DatedOrAbsent(kind) ==
    /\ ~parse_date_raises(CoupleDateText(pos, kind))
    /\ (CoupleDate(pos, kind) # None \/ CouplePlace(pos, kind) = <<>>)

\* C7: the real-mode import of a family whose spouses both resolve adds, for a MARR with
\* a parseable date d, the rows (husband, wife, d) and (wife, husband, d) with the MARR's
\* place and nothing else when no marriage of date d exists between them in either
\* direction, and no row when one exists; events_created grows by 1 in the first case
\* and by 0 in the second. The same for DIV and the divorces.
C7_DatedCoupleEventRows ==
    [][(phase = "families" /\ ~pretend /\ HusbandOf(pos) # 0 /\ WifeOf(pos) # 0) =>
        /\ \A kind \in CoupleKinds : CoupleDate(pos, kind) # None => DatedRowsAdded(kind)
        /\ (DatedOrAbsent("marriages") /\ DatedOrAbsent("divorces")) =>
              stats'.events_created =
                  stats.events_created + DatedEventsCounted("marriages") + DatedEventsCounted("divorces")
      ]_vars

\* C8: no ParentChildRelationship row has parent = child.
C8_NoSelfParent ==
    \A i \in Rows(db.parent_child) : db.parent_child[i].parent # db.parent_child[i].child

\* the links the family `pos` asks for: each resolved spouse to each resolved child
WantedLinks == {<<p, c>> : p \in {HusbandOf(pos), WifeOf(pos)} \ {0}, c \in ChildrenOf(pos)}
HasLink(store, pair) == ParentChildLinks(store, pair[1], pair[2]) # {}

\* C9: no two ParentChildRelationship rows have the same (parent, child), and the
\* real-mode import of a family all of whose links already exist adds no link row,
\* records no error and leaves relationships_created as it was.
C9_LinksUniqueAndReused ==
    [][/\ \A i, j \in Rows(db'.parent_child) : db'.parent_child[i] = db'.parent_child[j] => i = j
       /\ (/\ phase = "families" /\ ~pretend
           /\ WantedLinks # {}
           /\ \A pair \in WantedLinks : HasLink(db, pair))
          => /\ db'.parent_child = db.parent_child
             /\ stats'.relationships_created = stats.relationships_created
             /\ stats'.errors = stats.errors
      ]_vars

\* a file with a family and a child was imported again over its own links: the second
\* run found them all and counted none
C9_FamilyReimported ==
    /\ SecondRunDone
    /\ start.db.parent_child # <<>>
    /\ \E k \in Rows(families) :
          /\ HusbandOf(k) # 0 /\ WifeOf(k) # 0 /\ ChildrenOf(k) # {}
          /\ \A c \in ChildrenOf(k) : HasLink(start.db, <<HusbandOf(k), c>>) /\ HasLink(start.db, <<WifeOf(k), c>>)
    /\ db.parent_child = start.db.parent_child
    /\ stats.relationships_created = 0

\* C10: at the end of a real-mode run, every resolved husband and every resolved wife of
\* a family of the file is linked as parent to every resolved child of that family.
C10_ResolvedSpouseLinked ==
    (phase = "done" /\ ~pretend) =>
        \A k \in Rows(families) :
            \A p \in {HusbandOf(k), WifeOf(k)} \ {0} :
                \A c \in ChildrenOf(k) : HasLink(db, <<p, c>>)


\* ---------------------------------------------------------------- properties of the events,
\* the names, the matcher and the run
DeathsOf(store, pid) == {i \in Rows(store.deaths) : store.deaths[i].person = pid}
\* the person individual k of the run's file was imported as, 0 when it was not
PersonOf(k) == MapGet(person_map, individuals[k].k)
\* individual k of the run's file carries a BIRT with a date and a DEAT with a cause
HasBirthAndDeathData(k) ==
    /\ SubField(EventData(individuals[k].v.data, <<"B","I","R","T">>), <<"D","A","T","E">>) # <<>>
    /\ SubField(EventData(individuals[k].v.data, <<"D","E","A","T">>), <<"C","A","U","S">>) # <<>>

\* C11: in every state of every sequence of imports no person has two birth events or two
\* death events, and a step of an import leaves every birth and death row that existed as
\* it was: BIRT or DEAT data for a person who has the event adds no second one.
C11_OneBirthOneDeath ==
    [][/\ \A p \in Rows(db'.persons) :
            Cardinality(BirthsOf(db', p)) <= 1 /\ Cardinality(DeathsOf(db', p)) <= 1
       /\ \A i \in Rows(db.births) : i \in Rows(db'.births) /\ db'.births[i] = db.births[i]
       /\ \A i \in Rows(db.deaths) : i \in Rows(db'.deaths) /\ db'.deaths[i] = db.deaths[i]]_vars

\* a real-mode run has imported BIRT and DEAT data for a person who had both events when
\* the run started
C11_EventsReimported ==
    /\ phase = "done" /\ ~pretend
    /\ \E k \in Rows(individuals) :
        /\ HasBirthAndDeathData(k)
        /\ PersonOf(k) # 0
        /\ BirthsOf(start.db, PersonOf(k)) # {}
        /\ DeathsOf(start.db, PersonOf(k)) # {}

\* C12: in every state reached through real-mode imports and saves of death events and
\* persons, a person who has a death event is not living; and no step of an import turns
\* is_living of a stored person from false to true.
C12_DeadNotLiving ==
    [][/\ \A p \in Rows(db'.persons) : HasDeath(db', p) => ~db'.persons[p].is_living
       /\ saves' = saves =>
            \A p \in Rows(db.persons) : ~db.persons[p].is_living => ~db'.persons[p].is_living]_vars

\* a run has imported a death and a SEX value for a person who was stored as living,
\* without a death event, when the run loaded the pool
C12_DeathImportedForLoadedPerson ==
    /\ phase = "done" /\ ~pretend
    /\ \E k \in Rows(individuals) :
        /\ StrField(individuals[k].v.data, <<"S","E","X">>) = <<"F">>
        /\ PersonOf(k) \in Rows(start.db.persons)
        /\ start.db.persons[PersonOf(k)].is_living
        /\ ~HasDeath(start.db, PersonOf(k))
        /\ HasDeath(db, PersonOf(k))
        /\ db.persons[PersonOf(k)].gender = "F"
        /\ ~db.persons[PersonOf(k)].is_living

\* the Name row _import_individual looks up for individual k of the run's file
NameRowOf(k) ==
    LET nm == parse_name(StrField(individuals[k].v.data, <<"N","A","M","E">>))
    IN  [first_name |-> nm.first, middle_name |-> nm.middle, last_name |-> nm.last]
NoTwoNames(store) ==
    \A i, j \in Rows(store.names) : store.names[i] = store.names[j] => i = j
NoTwoLinks(store) ==
    \A i, j \in Rows(store.person_names) :
        (/\ store.person_names[i].person = store.person_names[j].person
         /\ store.person_names[i].name = store.person_names[j].name) => i = j

\* C13: through real-mode imports and saves of name links, no (first, middle, last) triple
\* has two Name rows and no (person, name) has two links; a step of an import leaves every
\* Name row and every link that existed as it was, type included, and a link it adds has
\* type OTHER.
C13_NamesAndLinksReused ==
    [][/\ NoTwoNames(db') /\ NoTwoLinks(db')
       /\ saves' = saves =>
            /\ \A i \in Rows(db.names) : i \in Rows(db'.names) /\ db'.names[i] = db.names[i]
            /\ \A i \in Rows(db.person_names) :
                    i \in Rows(db'.person_names) /\ db'.person_names[i] = db.person_names[i]
            /\ \A i \in Rows(db'.person_names) \ Rows(db.person_names) :
                    db'.person_names[i].name_type = "other"]_vars

\* a real-mode run has imported an individual whose person was, when the run started,
\* linked to the very name with a type other than OTHER
C13_TypedLinkReimported ==
    /\ phase = "done" /\ ~pretend
    /\ \E k \in Rows(individuals), i \in Rows(start.db.person_names) :
        /\ PersonOf(k) # 0
        /\ start.db.person_names[i].person = PersonOf(k)
        /\ start.db.names[start.db.person_names[i].name] = NameRowOf(k)
        /\ start.db.person_names[i].name_type = "born as"
        /\ stats.names_linked < stats.individuals_updated + stats.individuals_created

\* one name is listed in the nickname table as a nickname of the other
ListedNickname(a, b) ==
    \E k \in 1..Len(common_nicknames) :
        \/ (common_nicknames[k].full = a /\ b \in common_nicknames[k].nicks)
        \/ (common_nicknames[k].full = b /\ a \in common_nicknames[k].nicks)
\* the rule for two names: first and last names present, last names equal ignoring case,
\* first names equal ignoring case or, when not strict, a listed nickname pair
NamesRule(first1, last1, first2, last2, s) ==
    /\ first1 # <<>> /\ first2 # <<>> /\ last1 # <<>> /\ last2 # <<>>
    /\ lower(last1) = lower(last2)
    /\ \/ lower(first1) = lower(first2)
       \/ ~s /\ ListedNickname(lower(first1), lower(first2))

FindCall == call.op = "find_matching_person" /\ returned.done /\ returned.exc = ""
\* the call's list holds one candidate
LoneCandidate == Len(call.existing_people) = 1
\* the incoming name and birth date of the call
IncomingName == parse_name(StrField(call.gedcom_person, <<"N","A","M","E">>))
IncomingBirth == parse_date(MatcherBirthText(call.gedcom_person))
\* the candidate's stored birth date, None when it has no birth event
StoredBirth(p) == IF HasBirth(db, p) THEN Birth(db, p).date ELSE None
\* some name of the candidate matches the incoming name by the rule of C14
NamesAgree(p) ==
    \E n \in NamesOf(db, p) :
        NamesRule(IncomingName.first, IncomingName.last,
                  db.names[n].first_name, db.names[n].last_name, call.strict)
\* same calendar year when strict, years at most 2 apart when lenient
DatesAgree(d1, d2, s) ==
    IF s THEN Year(d1) = Year(d2) ELSE Year(d1) - Year(d2) \in -2..2
\* the name and birth-date rules together
CandidateRule(p) ==
    /\ NamesAgree(p)
    /\ (IncomingBirth # None /\ StoredBirth(p) # None) => DatesAgree(IncomingBirth, StoredBirth(p), call.strict)

\* C15: a candidate whose name matches, with a stored birth date, given a record with a
\* parseable birth date, is returned exactly when the dates agree: same calendar year
\* under strict, years at most 2 apart under lenient.
C15_DatesDecide ==
    (/\ FindCall /\ LoneCandidate
     /\ NamesAgree(call.existing_people[1])
     /\ IncomingBirth # None /\ StoredBirth(call.existing_people[1]) # None) =>
        (returned.value = call.existing_people[1]
            <=> DatesAgree(IncomingBirth, StoredBirth(call.existing_people[1]), call.strict))

\* a lenient call returned a candidate born two calendar years before the incoming date
C15_TwoYearsApartMatched ==
    /\ FindCall /\ LoneCandidate /\ ~call.strict
    /\ IncomingBirth # None /\ StoredBirth(call.existing_people[1]) # None
    /\ Year(IncomingBirth) - Year(StoredBirth(call.existing_people[1])) = 2
    /\ returned.value = call.existing_people[1]

Satisfying == {k \in 1..Len(call.existing_people) : CandidateRule(call.existing_people[k])}

NextRecord ==
    IF phase = "individuals"
    THEN [record |-> "individual", id |-> individuals[pos].k]
    ELSE [record |-> "family", id |-> families[pos].k]
NextRaises ==
    IF phase = "individuals"
    THEN import_individual(Context(db, stats, mem), individuals[pos].v,
                           existing_people, pretend, strict, 0 - pos).exc # ""
    ELSE import_family(Context(db, stats, mem), families[pos].v, person_map, pretend).exc # ""
Naming(errors, rec) ==
    {i \in 1..Len(errors) : errors[i].record = rec.record /\ errors[i].id = rec.id}
Logged(step, id) == \E i \in 1..Len(log) : log[i] = LogEntry(step, id)

\* C18: when the import of an individual or of a family raises, the iteration adds one
\* entry to the run's error list, the only one that names that record, and the run goes on
\* to the next record or to the summary; a run on an existing file never fails, and when
\* it has ended every individual and every family of the file was handed to the importer
\* and the summary was printed.
C18_ErrorCaughtRunGoesOn ==
    /\ []((file # 0 /\ runs > 0) => phase # "failed")
    /\ [](phase = "done" =>
            /\ \A k \in Rows(individuals) : Logged("individual", individuals[k].k)
            /\ \A k \in Rows(families) : Logged("family", families[k].k)
            /\ log[Len(log)] = LogEntry("summary", <<>>))
    /\ [][(phase \in {"individuals", "families"} /\ NextRaises) =>
            /\ Len(stats'.errors) = Len(stats.errors) + 1
            /\ Naming(stats'.errors, NextRecord) = {Len(stats'.errors)}
            /\ SubSeq(stats'.errors, 1, Len(stats.errors)) = stats.errors
            /\ phase' \in {"individuals", "families", "summary"}
            /\ log' = Append(log, LogEntry(NextRecord.record, NextRecord.id))]_vars

\* a run of FaultyFile ended with its summary after the second individual and the first
\* family raised: the individual and the family after them were still handed over
C18_RaisedTwiceAndEnded ==
    /\ phase = "done" /\ file = 6
    /\ Len(stats.errors) = 2
    /\ Naming(stats.errors, [record |-> "individual", id |-> individuals[2].k]) = {1}
    /\ Naming(stats.errors, [record |-> "family", id |-> families[1].k]) = {2}
    /\ Len(log) = 7
    /\ log[4] = LogEntry("individual", individuals[3].k)
    /\ log[6] = LogEntry("family", families[2].k)

\* C19: a run on a path that does not exist ends in the failed state at once: nothing is
\* parsed and no record is handed to the importer, the stored people are not loaded, the
\* store is as it was before the run, every counter is 0 with no error collected, and no
\* summary is printed; the failed state is left only by starting another run.
C19_MissingFileFails ==
    /\ []((file = 0 /\ runs > 0) =>
            /\ phase = "failed"
            /\ log = <<>>
            /\ existing_people = <<>> /\ person_map = <<>> /\ mem = <<>>
            /\ db = start.db
            /\ stats = NewStats)
    /\ [][phase = "failed" => (runs' = runs + 1 /\ db' = db)]_vars

\* a run on a missing path failed after an earlier real-mode run had filled the store
C19_FailedOnFilledStore ==
    /\ phase = "failed" /\ file = 0
    /\ runs = 2
    /\ Len(db.persons) > 0 /\ Len(db.births) > 0

\* the steps of a whole run on the file, in order
RunSteps ==
    <<LogEntry("parse", <<>>)>>
    \o [k \in Rows(individuals) |-> LogEntry("individual", individuals[k].k)]
    \o [k \in Rows(families) |-> LogEntry("family", families[k].k)]
    \o <<LogEntry("summary", <<>>)>>
Steps(step) == {i \in 1..Len(log) : log[i].step = step}

\* C20: the steps of a run on an existing file are, at every moment, the beginning of:
\* the parse, every individual of the file once, every family of the file once, the
\* summary once. A family is handed over only when every individual has been, the summary
\* is printed only when every family has been, and the run has ended exactly when the
\* summary is printed.
C20_PhasesInOrder ==
    (file # 0 /\ runs > 0) =>
        /\ Len(log) >= 1 /\ Len(log) <= Len(RunSteps)
        /\ log = SubSeq(RunSteps, 1, Len(log))
        /\ phase = "individuals" => Steps("family") = {}
        /\ Steps("family") # {} => Cardinality(Steps("individual")) = Len(individuals)
        /\ Steps("summary") # {} => Cardinality(Steps("family")) = Len(families)
        /\ Cardinality(Steps("summary")) = IF phase = "done" THEN 1 ELSE 0
        /\ phase = "done" <=> log = RunSteps
        /\ phase = "summary" <=> Len(log) = Len(RunSteps) - 1
        /\ phase = "families" => (Len(log) > Len(individuals) /\ Len(log) <= Len(individuals) + Len(families))

\* a run of a file with three individuals and two families ended: seven steps
C20_WholeRunDone ==
    /\ phase = "done"
    /\ Len(individuals) = 3 /\ Len(families) = 2
    /\ log = RunSteps

\* the individual record parses to an empty first name and an empty last name
Nameless(individual) ==
    /\ ~parse_name_raises(StrField(individual.data, <<"N","A","M","E">>))
    /\ parse_name(StrField(individual.data, <<"N","A","M","E">>)).first = <<>>
    /\ parse_name(StrField(individual.data, <<"N","A","M","E">>)).last = <<>>
NamelessIds == {individuals[k].k : k \in {j \in Rows(individuals) : Nameless(individuals[j].v)}}
SpouseIds(family) == {FirstOf(family.data, <<"H","U","S","B">>), FirstOf(family.data, <<"W","I","F","E">>)}
ChildIds(family) == {ListField(family.data, <<"C","H","I","L">>)[k] : k \in 1..Len(ListField(family.data, <<"C","H","I","L">>))}
\* the family's own marriage and divorce data raise, whoever its children are
CoupleEventsRaise(family) ==
    import_family(Context(db, stats, mem), [family EXCEPT !.data = DictSet(@, Entry(<<"C","H","I","L">>, "list", <<>>))],
                  person_map, pretend).exc # ""

\* C21: the iteration of an individual whose parsed first and last names are both empty
\* leaves the store, every counter, the error list, the xref map and the pool as they
\* were, and no entry of the xref map ever stands for such an individual; the iteration of
\* a family that names such an individual as husband or wife changes neither the store
\* nor the counters nor the error list, and one that names it as a child adds no error
\* entry unless its own marriage or divorce data raise.
C21_NamelessSkipped ==
    /\ [](\A k \in Rows(person_map) : person_map[k].id \notin NamelessIds)
    /\ [][(phase = "individuals" /\ Nameless(individuals[pos].v)) =>
            UNCHANGED <<db, stats, person_map, existing_people, mem>>]_vars
    /\ [][(phase = "families" /\ SpouseIds(families[pos].v) \cap NamelessIds # {}) =>
            UNCHANGED <<db, stats>>]_vars
    /\ [][(phase = "families" /\ ChildIds(families[pos].v) \cap NamelessIds # {}
            /\ ~CoupleEventsRaise(families[pos].v)) =>
            stats'.errors = stats.errors]_vars

\* a run ended after a family with a nameless husband and a family with two resolved
\* spouses and a nameless child were imported, with no error entry for either family
C21_NamelessReferenced ==
    /\ phase = "done" /\ NamelessIds # {}
    /\ \E k \in Rows(families) : SpouseIds(families[k].v) \cap NamelessIds # {}
    /\ \E k \in Rows(families) :
        /\ ChildIds(families[k].v) \cap NamelessIds # {}
        /\ MapGet(person_map, FirstOf(families[k].v.data, <<"H","U","S","B">>)) # 0
        /\ MapGet(person_map, FirstOf(families[k].v.data, <<"W","I","F","E">>)) # 0
    /\ \A i \in 1..Len(stats.errors) : stats.errors[i].record # "family"

DateCall == call.op = "parse_date" /\ returned.done

\* C24: a string that begins with a day, blanks, a three-letter English month abbreviation
\* in any case, blanks and four digits gives that day, month and year; a string that
\* begins with four digits gives January 1 of that year; a string that begins with one
\* or two digits, '/', one or two digits, '/' and four digits gives that month, day and
\* year; each when the date exists in the calendar. A string that begins with none of the
\* three shapes, the empty string included, gives None.
C24_ParseDateFormats ==
    DateCall =>
        /\ \A d \in ProbeDays, b \in Blanks, m \in ProbeMonths, y \in ProbeYears, t \in Tails :
            (call.date_str = DMYText(d.text, b, m.text, y.text, t) /\ ValidDate(y.no, m.no, d.no))
                => returned = Returned(Date(y.no, m.no, d.no))
        /\ \A y \in ProbeYears, t \in Tails :
            (call.date_str = y.text \o t /\ y.no >= 1) => returned = Returned(Date(y.no, 1, 1))
        /\ \A m \in ProbeMonthNumbers, d \in ProbeDays, y \in ProbeYears, t \in Tails :
            (call.date_str = MDYText(m.text, d.text, y.text, t) /\ ValidDate(y.no, m.no, d.no))
                => returned = Returned(Date(y.no, m.no, d.no))
        /\ call.date_str \in NoDateTexts => returned = Returned(None)

\* the leap day of 2000 with a lower-case month and two blanks was returned as a date
C24_LeapDayLowerCase ==
    /\ DateCall
    /\ call.date_str = <<"2","9"," "," ","f","e","b"," "," ","2","0","0","0">>
    /\ returned = Returned(Date(2000, 2, 29))

\* C25: every call of parse_date returns, and what it returns is None or a date of the
\* calendar; in particular a string of the shape of a pattern that denotes no date of the
\* calendar gives None.
C25_ParseDateNeverRaises ==
    DateCall =>
        /\ returned.exc = ""
        /\ returned.value = None
            \/ ValidDate(returned.value[1], returned.value[2], returned.value[3])

\* C22: in a real-mode run the pool holds every person that was in the store when the run
\* started and every person the run has created since, at every moment between two
\* iterations, so that a later individual of the file is matched against the persons
\* created for the earlier ones.
C22_CreatedPersonsInPool ==
    (file # 0 /\ runs > 0 /\ ~pretend) =>
        \A p \in Rows(db.persons) : InPool(existing_people, p)

ParseCall == call.op = "parse"
\* the line has a level field and a second field, and the level field is no integer
LevelNotInteger(line) ==
    Len(split_max(strip(line), " ", 2)) >= 2 /\ ~IsInt(split_max(strip(line), " ", 2)[1])
\* the line the step has read
LineRead == call'.lines[Len(call'.lines)]
ReadStep == ParseCall /\ call'.op = "parse" /\ Len(call'.lines) = Len(call.lines) + 1
RECURSIVE WithoutBadLines(_)
WithoutBadLines(lines) ==
    IF lines = <<>> THEN <<>>
    ELSE IF LevelNotInteger(Head(lines)) THEN WithoutBadLines(Tail(lines))
    ELSE <<Head(lines)>> \o WithoutBadLines(Tail(lines))

\* C23: reading a line whose level field is no integer leaves the parser's individuals,
\* families and current record as they were; after any lines the parser's state is the
\* state it has after the same lines without those of a non-integer level; and parse
\* returns its two tables, without raising, whatever lines it has read.
C23_BadLineSkipped ==
    /\ [][(ReadStep /\ LevelNotInteger(LineRead)) => call'.parser = call.parser]_vars
    /\ [](ParseCall => call.parser = parse(WithoutBadLines(call.lines)))
    /\ []((ParseCall /\ returned.done) =>
            /\ returned.exc = ""
            /\ returned.value = [individuals |-> parse(WithoutBadLines(call.lines)).individuals,
                                 families |-> parse(WithoutBadLines(call.lines)).families])

\* parse returned after a line of a non-integer level came between an event line and its
\* DATE line: the date is stored under the event
C23_BadLineInsideEvent ==
    /\ ParseCall /\ returned.done
    /\ call.lines = <<<<"0"," ","@","I","1","@"," ","I","N","D","I">>, <<"1"," ","B","I","R","T">>, <<"x"," ","B","I","R","T">>, <<"2"," ","D","A","T","E"," ","1","9","8","0">>>>
    /\ SubField(EventData(returned.value.individuals[1].v.data, <<"B","I","R","T">>), <<"D","A","T","E">>) = <<"1","9","8","0">>

\* the level of a line of an integer level, and its tag
LevelOf(line) == int(split_max(strip(line), " ", 2)[1])
TagOf(line) == split_max(strip(line), " ", 2)[2]
ValueOf(line) == IF Len(split_max(strip(line), " ", 2)) > 2 THEN split_max(strip(line), " ", 2)[3] ELSE <<>>
Leveled(line, levels) == ~LevelNotInteger(line) /\ Len(split_max(strip(line), " ", 2)) >= 2 /\ LevelOf(line) \in levels
\* the lines of the record being read: those after the last level-0 line
RecordStart(lines) ==
    LET starts == {i \in 1..Len(lines) : Leveled(lines[i], {0})}
    IN  IF starts = {} THEN 0 ELSE CHOOSE i \in starts : \A j \in starts : j <= i
EventLines(lines) ==
    {i \in (RecordStart(lines) + 1)..Len(lines) : Leveled(lines[i], {1}) /\ TagOf(lines[i]) \in EventTags}
\* the event tag opened by the most recent level-1 event line of the record
OpenEvent(lines) == TagOf(lines[CHOOSE i \in EventLines(lines) : \A j \in EventLines(lines) : j <= i])
\* the data of the parser's current record
RecordData(parser) == IF parser.current_record = NoRecord THEN <<>> ELSE CurrentData(parser)
Without(data, tag) == SelectSeq(data, LAMBDA e : e.k # tag)

\* C29: a line of level 2 or 3 read while a record is current is stored, under its tag
\* and with its value, in the sub-mapping of the event tag opened by the most recent
\* level-1 event line of that record (it is kept as stored if that sub-mapping already
\* has the tag), and every other entry of the record is left as it was; if the record
\* has opened no event tag the record is left as it was.
C29_StoredUnderOpenEvent ==
    [][(ReadStep /\ Leveled(LineRead, {2, 3}) /\ call.parser.current_record # NoRecord) =>
        IF EventLines(call.lines) = {}
        THEN call'.parser = call.parser
        ELSE /\ SubField(EventData(RecordData(call'.parser), OpenEvent(call.lines)), TagOf(LineRead))
                    = IF DictHas(EventData(RecordData(call.parser), OpenEvent(call.lines)), TagOf(LineRead))
                      THEN SubField(EventData(RecordData(call.parser), OpenEvent(call.lines)), TagOf(LineRead))
                      ELSE ValueOf(LineRead)
             /\ DictHas(EventData(RecordData(call'.parser), OpenEvent(call.lines)), TagOf(LineRead))
             /\ Without(RecordData(call'.parser), OpenEvent(call.lines))
                    = Without(RecordData(call.parser), OpenEvent(call.lines))]_vars

\* C30: a sub-tag stored in the sub-mapping of an event of the current record is there,
\* with the same value, after every further line of that record.
C30_StoredSubTagKept ==
    [][(ReadStep /\ call.parser.current_record # NoRecord
            /\ ~LevelNotInteger(LineRead) /\ ~Leveled(LineRead, {0})) =>
        \A t \in EventTags :
            \A i \in 1..Len(EventData(RecordData(call.parser), t)) :
                /\ DictHas(EventData(RecordData(call'.parser), t), EventData(RecordData(call.parser), t)[i].k)
                /\ SubField(EventData(RecordData(call'.parser), t), EventData(RecordData(call.parser), t)[i].k)
                    = EventData(RecordData(call.parser), t)[i].v]_vars

NameCall == call.op = "parse_name" /\ returned.done
\* the rule of the claim: the segments between slashes, empty ones dropped, or the words
Segments(name_str) == DropEmpty(split_on(name_str, "/"))
GivenAndRest(words) ==
    IF words = <<>> THEN NameTriple(<<>>, <<>>, <<>>)
    ELSE NameTriple(words[1], join(Tail(words)), <<>>)
WordsRule(words) ==
    IF Len(words) = 1 THEN NameTriple(words[1], <<>>, <<>>)
    ELSE IF Len(words) = 2 THEN NameTriple(words[1], <<>>, words[2])
    ELSE NameTriple(words[1], join(SubSeq(words, 2, Len(words) - 1)), words[Len(words)])
NameRule(name_str) ==
    IF name_str = <<>> THEN NameTriple(<<>>, <<>>, <<>>)
    ELSE IF Has(name_str, "/")
    THEN [GivenAndRest(IF Segments(name_str) = <<>> THEN <<>> ELSE split(Segments(name_str)[1]))
            EXCEPT !.last = IF Len(Segments(name_str)) >= 2 THEN Segments(name_str)[2] ELSE <<>>]
    ELSE WordsRule(split(name_str))

\* C26: every call of parse_name returns the triple the rule gives: for a string with a
\* '/', the first word of the first non-empty segment, the other words of that segment
\* joined by one space, and the second non-empty segment; for a string without, the first
\* word, the words between joined by one space, and the last word (one word: first name
\* only); three empty strings for the empty string.
C26_ParseNameRule ==
    NameCall => (returned.exc = "" /\ returned.value = NameRule(call.name_str))

\* the person the iteration has resolved the individual to: the last entry of the xref map
Resolved == person_map'[Len(person_map')].person
GenderOf(sex) == IF sex = <<"M">> THEN "M" ELSE IF sex = <<"F">> THEN "F" ELSE "U"

\* C27: in a real-mode run, the iteration of an individual that is resolved to a person
\* leaves that person's stored gender male for SEX 'M', female for SEX 'F' and unknown for
\* any other non-empty SEX; with SEX absent or empty a matched person's stored gender is
\* what it was and a new person's is unknown; no other person's gender changes.
C27_GenderFromSex ==
    [][(phase = "individuals" /\ ~pretend /\ Len(person_map') = Len(person_map) + 1) =>
        /\ db'.persons[Resolved].gender =
            IF StrField(individuals[pos].v.data, <<"S","E","X">>) # <<>>
            THEN GenderOf(StrField(individuals[pos].v.data, <<"S","E","X">>))
            ELSE IF Resolved \in Rows(db.persons) THEN db.persons[Resolved].gender ELSE "U"
        /\ \A q \in Rows(db.persons) \ {Resolved} : db'.persons[q].gender = db.persons[q].gender]_vars

\* a run ended in which a person stored as female was matched by a record with SEX 'X' and
\* is now stored as unknown, while a person stored as male, matched by a record without
\* SEX, is still male
C27_UnknownSexOverwrites ==
    /\ phase = "done" /\ ~pretend /\ stats.individuals_updated = 2
    /\ \E p \in Rows(start.db.persons) : start.db.persons[p].gender = "F" /\ db.persons[p].gender = "U"
    /\ \E p \in Rows(start.db.persons) : start.db.persons[p].gender = "M" /\ db.persons[p].gender = "M"

SecondRun == call.op = "import_gedcom"
\* the pairs of entries of the two runs' xref maps that stand for one individual of the
\* file and hold two different persons
CreatedTwice ==
    {ij \in Rows(person_map) \X Rows(call.person_map) :
        /\ person_map[ij[1]].id = call.person_map[ij[2]].id
        /\ person_map[ij[1]].person # call.person_map[ij[2]].person}

\* every individual of the file that has a name has a last name: the matcher can find
\* again, by its name, each person the file creates
AllSurnamed ==
    \A k \in Rows(individuals) :
        Nameless(individuals[k].v) \/ parse_name(StrField(individuals[k].v.data, <<"N","A","M","E">>)).last # <<>>

\* C28: two real-mode imports of one file, whose named individuals all have a last name,
\* on an empty store: a second run that starts after the first has ended creates no
\* Person and resolves every individual to the person the first run resolved it to; and
\* whenever the two runs hold two different persons for one individual, the second had
\* read its pool before the first run's person was stored, or had stored its own before
\* the first run reached that individual, whose pool is the one it read at its start
\* plus what it created itself.
C28_DoubleCreateOnlyWhenInterleaved ==
    (SecondRun /\ AllSurnamed) =>
        /\ call.after = "done" =>
            /\ call.stats.individuals_created = 0
            /\ Len(db.persons) = Len(call.start.persons)
            /\ CreatedTwice = {}
        /\ \A ij \in CreatedTwice :
            \/ person_map[ij[1]].person > Len(call.start.persons)
            \/ call.person_map[ij[2]].person < person_map[ij[1]].person

\* both runs have ended and hold two different Person rows for one individual of the file
C28_TwoPersonsForOneIndividual ==
    /\ SecondRun /\ AllSurnamed /\ phase = "done" /\ call.phase = "done"
    /\ \E ij \in CreatedTwice :
        /\ person_map[ij[1]].person \in Rows(db.persons)
        /\ call.person_map[ij[2]].person \in Rows(db.persons)
        /\ call.stats.individuals_created >= 1
\* ---------------------------------------------------------------- records of a parse
\* the xref and the tag of a line whose second field is an '@...@' id, or has no id
HasXref(line) ==
    TagOf(line) # <<>> /\ Head(TagOf(line)) = "@" /\ TagOf(line)[Len(TagOf(line))] = "@"
XrefOf(line) == IF HasXref(line) THEN TagOf(line) ELSE NoneId
RecordTag(line) == IF HasXref(line) THEN ValueOf(line) ELSE TagOf(line)
\* a level-0 line that opens a record
Opens(line) == Leveled(line, {0}) /\ RecordTag(line) \in {<<"I","N","D","I">>, <<"F","A","M">>}
\* a table as the set of its keys with their values
AsMap(table) == {<<table[i].k, table[i].v>> : i \in 1..Len(table)}
OneEntryPerKey(table) == \A i, j \in 1..Len(table) : table[i].k = table[j].k => i = j
\* the table after an entry was added or replaced under the key
Put(table, id, type) ==
    {p \in AsMap(table) : p[1] # id} \cup {<<id, [id |-> id, type |-> type, data |-> <<>>]>>}
Deeper(line) == ~LevelNotInteger(line) /\ Len(split_max(strip(line), " ", 2)) >= 2 /\ LevelOf(line) >= 1

\* C31: during a parse the current record is the record opened by the most recent
\* level-0 line when that line's tag is INDI or FAM, and none otherwise (none too before
\* any level-0 line); a line of level 1 or deeper read while no record is current leaves
\* individuals and families as they were; and a level-0 INDI or FAM line adds or
\* replaces, by an empty record of its type, exactly the entry keyed by its xref in the
\* table of its type and leaves the other table as it was.
C31_CurrentRecordTracksLevelZero ==
    /\ [](ParseCall =>
            LET opened == RecordStart(call.lines)
                current == call.parser.current_record
            IN  /\ current = IF opened # 0 /\ Opens(call.lines[opened])
                              THEN [type |-> IF RecordTag(call.lines[opened]) = <<"I","N","D","I">> THEN "INDI" ELSE "FAM",
                                    id |-> XrefOf(call.lines[opened])]
                              ELSE NoRecord
                /\ current # NoRecord => DictHas(CurrentTable(call.parser), current.id)
                /\ OneEntryPerKey(call.parser.individuals) /\ OneEntryPerKey(call.parser.families))
    /\ [][(ReadStep /\ call.parser.current_record = NoRecord /\ Deeper(LineRead)) =>
            /\ call'.parser.individuals = call.parser.individuals
            /\ call'.parser.families = call.parser.families]_vars
    /\ [][(ReadStep /\ Opens(LineRead)) =>
            IF RecordTag(LineRead) = <<"I","N","D","I">>
            THEN /\ AsMap(call'.parser.individuals) = Put(call.parser.individuals, XrefOf(LineRead), "INDI")
                 /\ call'.parser.families = call.parser.families
            ELSE /\ AsMap(call'.parser.families) = Put(call.parser.families, XrefOf(LineRead), "FAM")
                 /\ call'.parser.individuals = call.parser.individuals]_vars

\* an individual's record with a name was replaced by a second line of its xref, a
\* trailer closed it, and a NAME line read after the trailer was stored nowhere
C31_ReopenedClosedIgnored ==
    /\ ParseCall
    /\ call.lines = <<<<"0"," ","@","I","1","@"," ","I","N","D","I">>, <<"1"," ","N","A","M","E"," ","A","l">>, <<"0"," ","@","I","1","@"," ","I","N","D","I">>, <<"0"," ","T","R","L","R">>, <<"1"," ","N","A","M","E"," ","B","o">>>>
    /\ call.parser.current_record = NoRecord
    /\ call.parser.individuals = <<Entry(<<"@","I","1","@">>, "record", Record(<<"@","I","1","@">>, "INDI"))>>
    /\ call.parser.families = <<>>

\* the values, in file order, of the level-1 lines of the tag among the lines
RECURSIVE ValuesOf(_, _)
ValuesOf(lines, tag) ==
    IF lines = <<>> THEN <<>>
    ELSE IF Leveled(Head(lines), {1}) /\ TagOf(Head(lines)) = tag
         THEN <<ValueOf(Head(lines))>> \o ValuesOf(Tail(lines), tag)
         ELSE ValuesOf(Tail(lines), tag)
\* the level-1 tags among the lines
FieldTags(lines) == {TagOf(lines[i]) : i \in {j \in 1..Len(lines) : Leveled(lines[j], {1})}}
\* what the record's data hold for the tags of its lines
FieldsRule(data, own) ==
    /\ \A tag \in ListTags :
        IF ValuesOf(own, tag) = <<>> THEN ~DictHas(data, tag)
        ELSE DictHas(data, tag) /\ DictGet(data, tag) = Entry(tag, "list", ValuesOf(own, tag))
    /\ \A tag \in FieldTags(own) \ (ListTags \cup EventTags) :
        /\ DictHas(data, tag)
        /\ DictGet(data, tag) = Entry(tag, "str", ValuesOf(own, tag)[Len(ValuesOf(own, tag))])

\* C32: while a record is current, its data hold for each of CHIL, HUSB and WIFE the
\* sequence of the values of all level-1 lines of that tag read since the record was
\* opened, in file order (and no entry if there was none), and for every other level-1
\* tag that is no event tag the value of its last line.
C32_ListsAccumulateOthersLastWins ==
    (ParseCall /\ call.parser.current_record # NoRecord) =>
        FieldsRule(CurrentData(call.parser),
                   SubSeq(call.lines, RecordStart(call.lines) + 1, Len(call.lines)))

\* a family with two CHIL lines and two NAME lines, interleaved
C32_TwoChildrenTwoNames ==
    /\ ParseCall
    /\ call.lines = <<<<"0"," ","@","F","1","@"," ","F","A","M">>, <<"1"," ","C","H","I","L"," ","@","I","2","@">>, <<"1"," ","N","A","M","E"," ","A","l">>, <<"1"," ","C","H","I","L"," ","@","I","1","@">>, <<"1"," ","N","A","M","E"," ","B","o">>>>
    /\ CurrentData(call.parser) =
          <<Entry(<<"C","H","I","L">>, "list", <<<<"@","I","2","@">>, <<"@","I","1","@">>>>), Entry(<<"N","A","M","E">>, "str", <<"B","o">>)>>

\* ---------------------------------------------------------------- events of a person
PersonEvents == {"births", "deaths"}
DatedEvents == {"immigrations", "citizenships"}
\* the rows of the table the step has added
AddedRows(table) == {i \in Rows(db'[table]) : i > Len(db[table])}
\* the row matches a row the table held before the step
MatchedBefore(table, row) ==
    \E j \in Rows(db[table]) :
        /\ db[table][j].person = row.person
        /\ table \in DatedEvents => db[table][j].date = row.date

\* C33: a step of a real-mode import of individuals leaves every birth, death,
\* immigration and citizenship row that existed as it was, field by field; every row it
\* adds matches no row that existed before (same person for births and deaths, same
\* person and date for immigrations and citizenships) and no other row it adds; and
\* events_created grows by the number of rows added.
C33_MatchingEventUntouched ==
    [][(phase = "individuals" /\ ~pretend) =>
        /\ \A table \in PersonEvents \cup DatedEvents :
            /\ \A i \in Rows(db[table]) : i \in Rows(db'[table]) /\ db'[table][i] = db[table][i]
            /\ \A i \in AddedRows(table) :
                /\ ~MatchedBefore(table, db'[table][i])
                /\ \A j \in AddedRows(table) \ {i} :
                    ~(/\ db'[table][j].person = db'[table][i].person
                      /\ table \in DatedEvents => db'[table][j].date = db'[table][i].date)
        /\ stats'.events_created = stats.events_created
              + Cardinality(AddedRows("births")) + Cardinality(AddedRows("deaths"))
              + Cardinality(AddedRows("immigrations")) + Cardinality(AddedRows("citizenships"))]_vars

\* the date of the individual's event data
EventDate(k, tag) == parse_date(SubField(EventData(individuals[k].v.data, tag), <<"D","A","T","E">>))
\* the person has a row of that date in the table of the store
HasDated(store, table, pid, date) ==
    date # None /\ \E j \in Rows(store[table]) : store[table][j].person = pid /\ store[table][j].date = date

\* a real-mode run ended that imported BIRT and DEAT data for a person who had both
\* events when the run started, and IMMI, EMIG and NATU data for a person who had, when
\* the run started, an immigration of each of the two dates and a citizenship of the
\* date; the four tables are as they were when the run started and no event was counted
C33_FiveKindsReimported ==
    /\ phase = "done" /\ ~pretend
    /\ \E k \in Rows(individuals) :
        /\ HasBirthAndDeathData(k)
        /\ PersonOf(k) # 0
        /\ BirthsOf(start.db, PersonOf(k)) # {} /\ DeathsOf(start.db, PersonOf(k)) # {}
    /\ \E k \in Rows(individuals) :
        /\ PersonOf(k) # 0
        /\ HasDated(start.db, "immigrations", PersonOf(k), EventDate(k, <<"I","M","M","I">>))
        /\ HasDated(start.db, "immigrations", PersonOf(k), EventDate(k, <<"E","M","I","G">>))
        /\ HasDated(start.db, "citizenships", PersonOf(k), EventDate(k, <<"N","A","T","U">>))
    /\ \A table \in PersonEvents \cup DatedEvents : db[table] = start.db[table]
    /\ stats.events_created = 0

\* ---------------------------------------------------------------- immigration rows
\* the ImmigrationEvent of the individual's IMMI data, and of its EMIG data
ImmiRow(pid, data) ==
    [person |-> pid,
     date |-> parse_date(SubField(EventData(data, <<"I","M","M","I">>), <<"D","A","T","E">>)),
     from_country |-> SubField(EventData(data, <<"I","M","M","I">>), <<"P","L","A","C","_","F","R","O","M">>),
     to_country |-> SubField(EventData(data, <<"I","M","M","I">>), <<"P","L","A","C">>),
     location |-> SubField(EventData(data, <<"I","M","M","I">>), <<"P","L","A","C">>)]
EmigRow(pid, data) ==
    [person |-> pid,
     date |-> parse_date(SubField(EventData(data, <<"E","M","I","G">>), <<"D","A","T","E">>)),
     from_country |-> SubField(EventData(data, <<"E","M","I","G">>), <<"P","L","A","C">>),
     to_country |-> SubField(EventData(data, <<"E","M","I","G">>), <<"P","L","A","C","_","T","O">>),
     location |-> SubField(EventData(data, <<"E","M","I","G">>), <<"P","L","A","C">>)]
AddedImmigrations == {db'.immigrations[i] : i \in AddedRows("immigrations")}
HadImmigration(pid, date) ==
    \E j \in Rows(db.immigrations) : db.immigrations[j].person = pid /\ db.immigrations[j].date = date

\* C34: in a real-mode run, the iteration of an individual that is resolved to a person
\* adds no immigration row but the row of its IMMI data (to_country and location PLAC,
\* from_country PLAC_FROM) and the row of its EMIG data (from_country and location PLAC,
\* to_country PLAC_TO); it adds the IMMI row when IMMI has a date the person had no
\* immigration of, and the EMIG row when EMIG has a date the person had no immigration of
\* and that is not the IMMI date; so with two different dates the person had no
\* immigration of, it adds exactly these two rows.
C34_PlacRolesSwapped ==
    [][(phase = "individuals" /\ ~pretend /\ Len(person_map') = Len(person_map) + 1) =>
        LET data == individuals[pos].v.data
            immi == ImmiRow(Resolved, data)
            emig == EmigRow(Resolved, data)
        IN  /\ AddedImmigrations \subseteq {immi, emig}
            /\ (immi.date # None /\ ~HadImmigration(Resolved, immi.date)) => immi \in AddedImmigrations
            /\ (emig.date # None /\ ~HadImmigration(Resolved, emig.date) /\ emig.date # immi.date) =>
                    emig \in AddedImmigrations
            /\ (/\ immi.date # None /\ emig.date # None /\ emig.date # immi.date
                /\ ~HadImmigration(Resolved, immi.date) /\ ~HadImmigration(Resolved, emig.date)) =>
                    Cardinality(AddedRows("immigrations")) = 2]_vars

\* a real-mode run on an empty store ended: an individual with an EMIG and an IMMI of
\* different dates, naming the same two countries, has two immigration rows of these
\* dates, both from the EMIG place to the IMMI place
C34_TwoRowsSameCountries ==
    /\ phase = "done" /\ ~pretend /\ start.db = EmptyStore
    /\ \E k \in Rows(individuals) :
        /\ PersonOf(k) # 0
        /\ EventDate(k, <<"E","M","I","G">>) # None /\ EventDate(k, <<"I","M","M","I">>) # None
        /\ EventDate(k, <<"E","M","I","G">>) # EventDate(k, <<"I","M","M","I">>)
        /\ \E i, j \in Rows(db.immigrations) :
            /\ db.immigrations[i] = ImmiRow(PersonOf(k), individuals[k].v.data)
            /\ db.immigrations[j] = EmigRow(PersonOf(k), individuals[k].v.data)
            /\ db.immigrations[i].from_country = db.immigrations[j].from_country
            /\ db.immigrations[i].to_country = db.immigrations[j].to_country
            /\ db.immigrations[i].from_country # db.immigrations[i].to_country
            /\ db.immigrations[i].from_country # <<>> /\ db.immigrations[i].to_country # <<>>

\* ---------------------------------------------------------------- the save hook
SaveCalled == call.op = "save"
\* the row is the mirror of the row the save was called on
MirrorOfSaved(i) ==
    /\ db[call.kind][i].person = db[call.kind][call.row].other_person
    /\ db[call.kind][i].other_person = db[call.kind][call.row].person

\* C35: a save of a couple event, created or updated, dated or not, ends; while it runs
\* at most two invocations of save() are open, at most one save besides the one called
\* was made, that one being of the mirror row of the row saved, and when it has returned
\* the store is what the whole hook makes of the store super().save() had written.
C35_SaveHookTerminates ==
    /\ [](SaveCalled =>
            /\ Len(call.stack) <= 2
            /\ Len(call.saved) <= 2
            /\ Len(call.saved) = 2 => MirrorOfSaved(call.saved[2]))
    /\ []((SaveCalled /\ returned.done /\ call.row # 0) =>
            /\ call.stack = <<>>
            /\ returned.exc = event_save(call.written, call.kind, call.row, call.is_new, FALSE).exc
            /\ db = event_save(call.written, call.kind, call.row, call.is_new, FALSE).db)
    /\ (SaveCalled ~> returned.done)

\* the save of a stored divorce whose date was set has returned: one nested save, of the
\* mirror row, was made
C35_UpdatedWithMirror ==
    /\ SaveCalled /\ returned.done /\ returned.exc = ""
    /\ call.kind = "divorces" /\ ~call.is_new
    /\ Len(call.saved) = 2 /\ call.saved[2] # call.row
    /\ db.divorces[call.row].date # None

\* ---------------------------------------------------------------- pretend and real counters
Counters == {"individuals_created", "individuals_updated", "names_created", "names_linked",
             "events_created", "relationships_created"}
\* the real-mode run that followed the pretend run has printed its summary
BothSummaries ==
    /\ phase = "done" /\ pretend
    /\ call.op = "import_gedcom" /\ call.phase = "done"
    /\ call.start = start.db

\* C36: when a pretend run of a file and the real-mode run of the same file with the same
\* flag against the same store have both printed their summary, each of the six counters
\* is the same in both.
C36_PretendCountsAsReal ==
    BothSummaries => \A counter \in Counters : stats[counter] = call.stats[counter]


\* ---------------------------------------------------------------- couples of one person
SelfCouples(store) ==
    {<<kind, i>> \in (CoupleKinds \X (1..(Len(store.marriages) + Len(store.divorces)))) :
        i \in Rows(store[kind]) /\ store[kind][i].person = store[kind][i].other_person}

\* C37: when a real-mode import has ended, no marriage and no divorce row has the same
\* person as person and as other_person.
C37_NoSelfCouple ==
    (phase = "done" /\ ~pretend) => SelfCouples(db) = {}

\* ---------------------------------------------------------------- strict and lenient
\* the candidate matches the call's record under the flag
MatchUnder(p, s) ==
    is_match(db, p, IncomingName.first, IncomingName.middle, IncomingName.last, IncomingBirth, s)
\* what the call returns under the flag
FoundUnder(s) == find_matching_person(db, call.gedcom_person, call.existing_people, s)
PlaceOf(p) == CHOOSE k \in 1..Len(call.existing_people) : call.existing_people[k] = p

\* C38: for the record and the list of a call of find_matching_person, every candidate
\* that matches under strict matches under lenient; when the call was strict and returned
\* a person, the lenient call returns a person, the same or one earlier in the list; when
\* the call was lenient and returned None, the strict call returns None.
C38_StrictWithinLenient ==
    FindCall =>
        /\ \A k \in 1..Len(call.existing_people) :
            MatchUnder(call.existing_people[k], TRUE) => MatchUnder(call.existing_people[k], FALSE)
        /\ (call.strict /\ returned.value # 0) =>
            /\ FoundUnder(FALSE) # 0
            /\ PlaceOf(FoundUnder(FALSE)) <= PlaceOf(returned.value)
        /\ (~call.strict /\ returned.value = 0) => FoundUnder(TRUE) = 0

\* a strict call returned a person although an earlier person of its list, whom the
\* strict rules reject, is the one the lenient call returns
C38_LenientFindsEarlier ==
    /\ FindCall /\ call.strict /\ returned.value # 0
    /\ FoundUnder(FALSE) # returned.value
    /\ PlaceOf(FoundUnder(FALSE)) < PlaceOf(returned.value)
    /\ ~MatchUnder(FoundUnder(FALSE), TRUE)

====
